---------------------------- MODULE Spec2Model ----------------------------
(***************************************************************************)
(* Terrain synthesis of Space-Game: the seeded permutation table, the      *)
(* value-noise sample, the fractal noise map, biome classification, the   *)
(* biome overlap check and the terrain mesh builder.                       *)
(*                                                                         *)
(* Numbers.  A JavaScript number is modelled as a fixed-point integer      *)
(* counting units of 1/ONE, ONE = 64 * 100, so that every decimal literal  *)
(* of the source with two places (0.01, 0.25, 0.45, ...) and every dyadic  *)
(* fraction down to 1/256 is an exact integer.  Sums and differences are   *)
(* exact; a product is rounded down to the unit (Mul).  On the inputs of   *)
(* SpecNoise (coordinates in halves, persistence 1/2 or 1) every           *)
(* intermediate value is a multiple of 1/256, so the model computes the    *)
(* same values as IEEE doubles do.  Array indices, loop counters and table *)
(* entries are plain integers.  Arrays are functions on 0..n-1.            *)
(***************************************************************************)
EXTENDS Integers, Sequences, FiniteSets

VARIABLES
    pc,           \* position of the running call
    call,         \* arguments of the running (or latest) generateNoiseMap call
    permutation,  \* const permutation: number[]
    i,            \* loop counter of the shuffle
    p,            \* const p = [...permutation, ...permutation]
    noiseMap,     \* const noiseMap: number[][]
    firstCall,    \* arguments of the first call that returned
    firstMap,     \* the grid that call returned
    between,      \* a call with other arguments has returned since
    biomes,       \* const biomes: Biome[]
    temp,         \* const temp = temperatureMap[tempZ][tempX]
    humid,        \* const humid = humidityMap[tempZ][tempX]
    height,       \* noiseMap[z][x] of the cell being classified
    viableBiomes, \* const viableBiomes = biomes.filter(...), as indices
    selectedBiome,\* let selectedBiome: Biome, as an index into biomes
    ci,           \* checkBiomes: let i
    cj,           \* checkBiomes: let j
    warnings,     \* checkBiomes: the pairs passed to console.warn, in order
    terrainCall,  \* arguments of the generateTerrainMesh call
    geometry,     \* const geometry = new three.PlaneGeometry(...)
    terrainNoiseMap, \* generateTerrainMesh: const noiseMap
    temperatureMap,  \* let temperatureMap: number[][]
    humidityMap,  \* let humidityMap: number[][]
    biomeMap,     \* let biomeMap: Biome[][], as indices into biomes
    colors,       \* const colors: number[]
    rowZ,         \* classification loop: let z
    colX,         \* classification loop: let x
    vertex,       \* displacement loop: let i
    loopCall,     \* generateNoiseMap: width, height and octaves as numbers
    loopY,        \* generateNoiseMap: let y
    loopX,        \* generateNoiseMap: let x
    loopOctave,   \* generateNoiseMap: let octave
    seamIn,       \* a lattice line, a side fraction and a seed for noise
    seamOut,      \* the two values of noise on the two sides of the line
    lookup,       \* a seed, sample coordinates and the table indices noise reads
    isDragging,   \* WindowElement: this._isDragging
    dragListening,\* onMouseMove and onMouseUp are listeners of document
    dragOffset,   \* _setupDragging: let offsetX, offsetY
    stylePosition,\* windowDiv.style.left and .top, in px
    windowSize,   \* windowDiv.offsetWidth and .offsetHeight
    desktopSize,  \* <main>: clientWidth and clientHeight
    dragWritten,  \* the drag handler has written the position
    isResizing,   \* _setupResizing: let isResizing
    resizeDirection, \* _setupResizing: let resizeDirection, as a set of letters
    resizeStart,  \* _setupResizing: startX, startY, startWidth, ..., startTop
    resizeListening, \* the resize listeners are listeners of document
    movedBy,      \* the handlers that wrote the geometry in the latest mousemove
    lastEvent,    \* the kind of the latest pointer event
    gestures,     \* the number of mousedown events
    focused,      \* windowDiv is the focused element
    pointerlock,  \* WindowElement: this.pointerlock
    exHooks,      \* update has overridden gameWindow.exFocus and exBlur
    mousex,       \* WindowElement: this.mousex
    mousey,       \* WindowElement: this.mousey
    mousebuttons, \* WindowElement: this.mousebuttons
    keys,         \* WindowElement: this.keys
    camera,       \* yaw and pitch in 0.01 rad, steps along forward
    frames,       \* the number of animation frames that have run
    lastKeyEvent, \* per key: its latest event since the latest blur
    quiet,        \* no keydown and no mousedown since the latest blur
    released,     \* a key and a button were held at the latest blur
    deltaPending, \* mousex, mousey hold the delta of the latest mousemove
    deltaReads,   \* the number of frames that have applied that delta
    deltaDropped  \* a delta was overwritten before any frame applied it

noiseVars == <<call, permutation, i, p, noiseMap, firstCall, firstMap, between>>

biomeVars ==
    <<biomes, temp, humid, height, viableBiomes, selectedBiome, ci, cj, warnings>>

terrainVars ==
    <<terrainCall, geometry, terrainNoiseMap, temperatureMap, humidityMap,
      biomeMap, colors, rowZ, colX, vertex>>

loopVars == <<loopCall, loopY, loopX, loopOctave>>

\* The variables of the components added after the terrain builder.
seamVars == <<seamIn, seamOut, lookup>>

dragVars ==
    <<isDragging, dragListening, dragOffset, stylePosition, windowSize,
      desktopSize, dragWritten, isResizing, resizeDirection, resizeStart,
      resizeListening, movedBy, lastEvent, gestures>>

inputVars ==
    <<focused, pointerlock, exHooks, mousex, mousey, mousebuttons, keys, camera,
      frames, lastKeyEvent, quiet, released, deltaPending, deltaReads,
      deltaDropped>>

restVars == <<loopVars, seamVars, dragVars, inputVars>>

vars == <<pc, noiseVars, biomeVars, terrainVars, restVars>>

(***************************************************************************)
(* Bounds of the model.                                                    *)
(***************************************************************************)
MaxSeed == 3

MaxDim == 2

MaxOctaves == 2

SampleSteps == 2

MaxSegments == 4

LoopCap == 3

SeamSteps == 4

\* The pointer is at one of 1 + DragSteps points.
DragSteps == 5

\* The mousedown events of a run of SpecDrag.
MaxGestures == 2

\* The animation frames of a run of SpecInput.
MaxFrames == 3

\* Line 259: the lower bound of the top of a dragged window, the height of
\* the topbar.
TopbarHeight == 40

Seeds == 0..MaxSeed

\* The value of a variable that holds nothing yet, and of an absent
\* optional property.
None == <<>>

\* The values of a JavaScript number that are not finite, and undefined, are
\* codes above every finite value of the model.
NonFinite == 2 ^ 30

NaN == NonFinite

PlusInfinity == NonFinite + 1

MinusInfinity == NonFinite + 2

undefined == NonFinite + 3

\* Number.isFinite(v).
IsFinite(v) == v < NonFinite

(***************************************************************************)
(* Fixed-point numbers.                                                    *)
(***************************************************************************)
ONE == 64 * 100

Num(k) == k * ONE

Mul(a, b) == (a * b) \div ONE

\* Math.floor of a number, as an integer.
Floor(a) == a \div ONE

Min(a, b) == IF a <= b THEN a ELSE b

Max(a, b) == IF a >= b THEN a ELSE b

\* A clamp without the upper end of the range.
clampBelow(num, lower, upper) == Max(num, lower)

\* function clamp(num, lower, upper) { return Math.min(Math.max(num, lower), upper); }
clamp(num, lower, upper) == Min(Max(num, lower), upper)

(***************************************************************************)
(* The seeded random number generator.  The source computes                *)
(*     s = Math.sin(s) * 10000;  return s - Math.floor(s);                 *)
(* a number in [0,1).  SinTable[n+1] is floor(2^23 * that number) for the  *)
(* integer argument n, 0 <= n <= 300, tabulated from the double values;    *)
(* 23 bits are enough for Math.floor(seededRandom(seed+i) * (i+1)) to be   *)
(* the source's value for every i in 1..255 (the nearest any product       *)
(* comes to an integer is 1.5e-5).                                         *)
(***************************************************************************)
RandDenom == 2 ^ 23

SinTable ==
    << 0, 5954637, 8172754, 1678397, 8179286, 6352301, 7088524, 7264427, 4886080, 1550654,
       6617698, 821534, 2271802, 5623456, 617040, 7368566, 8110385, 210396, 1069818, 6476815,
       3795906, 4667298, 4084472, 6676981, 1815126, 4047495, 4903181, 6369336, 485558, 5546194,
       5735786, 5230689, 2238184, 994897, 6936214, 1453788, 1773901, 5189750, 5752799, 8001581,
       1103981, 6487010, 6581037, 2118741, 161489, 295659, 7411137, 6133980, 3803283, 3971774,
       2109424, 2447447, 2314588, 2109750, 918648, 3760331, 4110242, 5432063, 6094163, 3188269,
       7497645, 6897951, 1619282, 4672480, 2184242, 2405810, 4097497, 6712650, 6066583, 1273912,
       7606920, 4584647, 1959810, 2352426, 4507998, 1540533, 640629, 1691024, 6581365, 7325879,
       951777, 1007113, 2414445, 5407389, 7576596, 2045146, 3485717, 6892362, 8246230, 5822181,
       8108730, 7341017, 2846286, 1498098, 4027750, 5177007, 7360620, 649196, 1520687, 7815314,
       2882232, 2163185, 2247422, 7434944, 6509294, 5428810, 4823442, 6857230, 1552346, 3574103,
       4808510, 4072785, 368732, 1517843, 6743491, 2964032, 5150048, 172726, 4012351, 8044554,
       938199, 1277142, 1103428, 8095787, 1091618, 4994645, 7619009, 2522223, 3163386, 2232037,
       7889470, 8104474, 7011798, 5516031, 2081755, 5761808, 5603026, 7176071, 4004763, 6721894,
       3326874, 5986561, 418829, 4583462, 6577180, 3788466, 5802662, 3692823, 5587289, 4307710,
       1977226, 4184356, 1721656, 48718, 6682595, 7383420, 1290267, 4316536, 2021363, 1655216,
       2118826, 7735506, 4164877, 7534996, 2749619, 8160391, 7680922, 4178628, 2240700, 11100,
       4148627, 7622555, 4961038, 7505043, 3189831, 5486554, 4381880, 7531944, 6319625, 1859522,
       3973202, 4076853, 1588307, 6745131, 7078583, 1776715, 6380580, 2430734, 6403107, 1506062,
       8328099, 717096, 5170934, 3642784, 1146784, 4585883, 2521243, 490139, 1795861, 97637,
       226726, 817828, 1544079, 813708, 1707862, 209063, 4873519, 7966867, 5698397, 5590316,
       1553431, 4374336, 4438093, 2464588, 8342586, 3827047, 4906357, 1542714, 6331106, 7152001,
       8280603, 3254601, 4264618, 4486669, 6627221, 429664, 4712958, 4915478, 1934621, 5231952,
       3002781, 1326259, 1952596, 3295196, 1400159, 7267972, 5696750, 3534138, 2003771, 7606896,
       3787869, 5176884, 7389732, 7604369, 5343598, 7334728, 5033133, 602763, 4372077, 3087557,
       6038158, 515035, 1024333, 1990505, 8296170, 701713, 7714658, 3592436, 2988595, 7816836,
       3330597, 1576296, 695455, 4430401, 1466854, 853128, 4532068, 5719122, 5451671, 4456008,
       4534338, 907530, 4776342, 12991, 7431745, 1230951, 1202922, 361857, 1769312, 6944736,
       7598331, 4073816, 4214056, 4405679, 5366034, 6005421, 7150546, 4953631, 8021962, 6625298,
       3828050, 1193321, 2179445, 8304826, 7550647, 1517407, 5138069, 5792755, 3156561, 1952732,
       3704417 >>

seededRandom(s) == SinTable[s + 1]

PermSize == 256

\* The array of the previous call, had it been kept between calls instead of
\* being filled anew.
StalePermutation ==
    IF permutation = <<>> THEN [k \in 0..(PermSize - 1) |-> k] ELSE permutation

\* for (let i = 0; i < 256; i++) { permutation[i] = i; }
IdentityPermutation == [k \in 0..(PermSize - 1) |-> k]

\* The seeds that are not finite numbers.
NonFiniteSeeds == {NaN, PlusInfinity, MinusInfinity}

\* const j = Math.floor(seededRandom(seed + i) * (i + 1));
\* With a seed that is not finite, seed + i is that seed again, Math.sin of
\* it is NaN, and so are s - Math.floor(s), the product and its floor.
ShuffleIndex(seed, k) ==
    IF IsFinite(seed) THEN (seededRandom(seed + k) * (k + 1)) \div RandDenom
    ELSE NaN

\* arr[k]: undefined when the array has no property k.
Get(arr, k) == IF k \in DOMAIN arr THEN arr[k] ELSE undefined

\* [permutation[i], permutation[j]] = [permutation[j], permutation[i]];
\* Both reads come first; a write to a property the array does not have
\* (j = NaN) creates it and leaves the length at 256.
Swap(perm, a, b) ==
    [k \in DOMAIN perm \cup {a, b} |->
        IF k = a THEN Get(perm, b) ELSE IF k = b THEN Get(perm, a) ELSE perm[k]]

ShuffleStep(perm, seed, k) == Swap(perm, k, ShuffleIndex(seed, k))

\* A table of 512 entries of which only the first 256 are filled in.
DuplicatePadded(perm) ==
    [k \in 0..(2 * PermSize - 1) |-> IF k < PermSize THEN perm[k] ELSE 0]

\* const p = [...permutation, ...permutation];
Duplicate(perm) == [k \in 0..(2 * PermSize - 1) |-> perm[k % PermSize]]

\* for (let i = 255; i > 0; i--) { ... }: the iterations i = hi, hi-1, ...,
\* lo+1 in that order.  The range is split in halves to keep the evaluation
\* shallow; the comparison of the upper half's result makes TLC finish the
\* upper half before it starts the lower one, and is always true.
RECURSIVE ShuffleRange(_, _, _, _)
ShuffleRange(perm, seed, hi, lo) ==
    IF hi <= lo THEN perm
    ELSE IF hi = lo + 1 THEN ShuffleStep(perm, seed, hi)
    ELSE LET mid   == (hi + lo) \div 2
             upper == ShuffleRange(perm, seed, hi, mid)
         IN  IF upper # <<>> THEN ShuffleRange(upper, seed, mid, lo) ELSE upper

Shuffle(perm, seed) == ShuffleRange(perm, seed, PermSize - 1, 0)

\* Lines 458-474 for each seed of the model: the shuffled array.
ShuffledFor == [s \in Seeds |-> Shuffle(IdentityPermutation, s)]

\* Line 474 for each seed of the model: the duplicated table.
TableFor == [s \in Seeds |-> Duplicate(ShuffledFor[s])]

(***************************************************************************)
(* The noise sample function.                                              *)
(***************************************************************************)
\* const fade = (t) => t * t * t * (t * (t * 6 - 15) + 10);
fade(t) == Mul(Mul(Mul(t, t), t), Mul(t, Mul(t, Num(6)) - Num(15)) + Num(10))

\* const lerp = (t, a, b) => a + t * (b - a);
lerp(t, a, b) == a + Mul(t, b - a)

\* const grad = (hash, x, y) => { const h = hash & 3; ... }
grad(hash, x, y) ==
    LET h == hash % 4
        u == IF h < 2 THEN x ELSE y
        v == IF h < 2 THEN y ELSE x
    IN  (IF h % 2 = 1 THEN -u ELSE u) + (IF h >= 2 THEN -v ELSE v)

\* Lines 490-497: the interpolation in the lattice cell (X, Y) at the
\* fractions (xf, yf), reading the table tab (the closure's p).
Interpolate(tab, X, Y, xf, yf) ==
    LET u  == fade(xf)
        v  == fade(yf)
        a  == tab[X] + Y
        b  == tab[X + 1] + Y
    IN  lerp(v,
             lerp(u, grad(tab[a], xf, yf), grad(tab[b], xf - ONE, yf)),
             lerp(u, grad(tab[a + 1], xf, yf - ONE),
                     grad(tab[b + 1], xf - ONE, yf - ONE)))

\* const noise = (x, y) => { ... }: lines 486-489 find the cell and the
\* fractions.
noise(tab, x, y) ==
    Interpolate(tab, Floor(x) % PermSize, Floor(y) % PermSize,
                x - Num(Floor(x)), y - Num(Floor(y)))

(***************************************************************************)
(* The octave loop of one cell and the whole grid.                         *)
(***************************************************************************)
\* for (let octave = 0; octave < octaves; octave++) { ... } from `octave` on.
RECURSIVE OctaveLoop(_, _, _, _, _, _, _, _)
OctaveLoop(tab, c, x, y, octave, amplitude, frequency, noiseValue) ==
    IF octave < c.octaves
    THEN LET sampleX == Mul(Mul(Num(x) + c.offsetX, c.scale), frequency)
             sampleY == Mul(Mul(Num(y) + c.offsetY, c.scale), frequency)
         IN  OctaveLoop(tab, c, x, y, octave + 1,
                        Mul(amplitude, c.persistence),
                        Mul(frequency, c.lacunarity),
                        noiseValue + Mul(noise(tab, sampleX, sampleY), amplitude))
    ELSE noiseValue

\* noiseMap[y][x] = (noiseValue + 1) / 2;
Normalize(noiseValue) == (noiseValue + ONE) \div 2

\* A cell computed with a scale of 0.5 whatever the scale of the call.
NoiseCellFixedScale(tab, c, x, y) ==
    Normalize(OctaveLoop(tab, [c EXCEPT !.scale = ONE \div 2], x, y, 0, ONE, ONE, 0))

\* Lines 504-519: one cell.
NoiseCell(tab, c, x, y) == Normalize(OctaveLoop(tab, c, x, y, 0, ONE, ONE, 0))

\* The two loops over y < height and x < width.
NoiseGrid(tab, c) ==
    [y \in 0..(c.height - 1) |-> [x \in 0..(c.width - 1) |-> NoiseCell(tab, c, x, y)]]

(***************************************************************************)
(* The biome table.  A range [lo, hi] of the source is the pair <<lo, hi>>;*)
(* a rule without heightRange has heightRange = None.                      *)
(***************************************************************************)
Hundredths(n) == n * (ONE \div 100)

Range(lo, hi) == <<Hundredths(lo), Hundredths(hi)>>

Biome(n, t, h, z, c, w) ==
    [name |-> n, temperatureRange |-> t, humidityRange |-> h, heightRange |-> z,
     color |-> c, weight |-> w]

\* An array literal: element k of the source is Array(s)[k].
Array(s) == [k \in 0..(Len(s) - 1) |-> s[k + 1]]

\* const biomes: Biome[] = [ ... ], lines 624-683.
ProgramBiomes ==
    Array(<<
      Biome("Grassland", Range(25, 50), Range(45, 60), None, "#7CFC00", Num(2)),
      Biome("Tundra", Range(0, 25), Range(45, 100), None, "#D9FBFF", Num(1)),
      Biome("Forest", Range(25, 60), Range(60, 100), None, "#376137", Num(1)),
      Biome("Savanna", Range(50, 75), Range(0, 50), None, "#d7a100", Num(1)),
      Biome("Desert", Range(60, 100), Range(0, 30), None, "#EDC9AF", Num(1)),
      Biome("Tropical Rainforest", Range(75, 100), Range(50, 100), None,
            "#00853E", Num(1)),
      Biome("Beach", Range(50, 100), Range(30, 70), Range(0, 30), "#FFF5BA",
            Num(10)),
      Biome("Ocean", Range(0, 100), Range(0, 100), Range(0, 15), "#1E90FF",
            Num(100)) >>)

\* Other tables the same code is run on: every table of one or two rules
\* drawn from a family of rules whose ranges overlap, touch, nest and miss
\* each other, with and without a height range, with weights 1 and 100.
RuleFamily ==
    { Biome("rule", t, h, z, "#808080", w) :
        t \in {Range(0, 50), Range(60, 80), Range(0, 100)},
        h \in {Range(0, 100), Range(0, 50), Range(50, 100)},
        z \in {None, Range(0, 30)},
        w \in {Num(1), Num(100)} }

\* The two rules of the overlap example: temperature [0,0.5] and [0.3,0.8],
\* humidity [0,1] both.
OverlapExample ==
    Array(<< Biome("a", Range(0, 50), Range(0, 100), None, "#808080", Num(1)),
             Biome("b", Range(30, 80), Range(0, 100), None, "#808080", Num(1)) >>)

BiomeTables ==
    {ProgramBiomes, OverlapExample}
        \cup { Array(<<a>>) : a \in RuleFamily }
        \cup { Array(<<a, b>>) : a \in RuleFamily, b \in RuleFamily }

(***************************************************************************)
(* Classification of one cell, lines 565-582.                              *)
(***************************************************************************)
\* A range test with the bounds left out.
InRangeExclusive(v, range) == v > range[1] /\ v < range[2]

\* v >= range[0] && v <= range[1]
InRange(v, range) == v >= range[1] /\ v <= range[2]

\* The filter's test with the height clause forgotten.
IsViableWithoutHeight(biome, t, h, z) ==
    /\ InRange(t, biome.temperatureRange)
    /\ InRange(h, biome.humidityRange)

\* The arrow function passed to biomes.filter, lines 566-570.
IsViable(biome, t, h, z) ==
    /\ InRange(t, biome.temperatureRange)
    /\ InRange(h, biome.humidityRange)
    /\ IF biome.heightRange # None THEN InRange(z, biome.heightRange) ELSE TRUE

\* biomes.filter(...): the indices of the rules kept, in table order.
Filter(table, t, h, z) ==
    SelectSeq([k \in 1..Cardinality(DOMAIN table) |-> k - 1],
              LAMBDA k : IsViable(table[k], t, h, z))

\* A reducer that lets a later rule of equal weight win.
LaterOnTie(table, prev, current) ==
    IF table[current].weight >= table[prev].weight THEN current ELSE prev

\* (prev, current) => current.weight > prev.weight ? current : prev
HigherWeight(table, prev, current) ==
    IF table[current].weight > table[prev].weight THEN current ELSE prev

\* viableBiomes.reduce(...) without an initial value, from element k on.
RECURSIVE ReduceFrom(_, _, _, _)
ReduceFrom(table, viable, k, prev) ==
    IF k > Len(viable) THEN prev
    ELSE ReduceFrom(table, viable, k + 1, HigherWeight(table, prev, viable[k]))

\* A default that takes the last rule of the table.
LastIndex == Cardinality(DOMAIN biomes) - 1

\* selectedBiome = biomes[0];
DefaultIndex == 0

\* Lines 573-580.
SelectBiome(table, viable) ==
    IF Len(viable) > 0 THEN ReduceFrom(table, viable, 2, viable[1])
    ELSE DefaultIndex

(***************************************************************************)
(* The samples a table is classified on: the points of a grid over [0,1],  *)
(* the end points of the table's own ranges, and for the height (which     *)
(* generateNoiseMap does not keep inside [0,1]) one value on either side.  *)
(***************************************************************************)
GridPoints == {(k * ONE) \div SampleSteps : k \in 0..SampleSteps}

EndPoints(table, field) ==
    UNION { {table[k][field][1], table[k][field][2]} :
              k \in {n \in DOMAIN table : table[n][field] # None} }

Temperatures(table) == GridPoints \cup EndPoints(table, "temperatureRange")

Humidities(table) == GridPoints \cup EndPoints(table, "humidityRange")

Heights(table) ==
    GridPoints \cup EndPoints(table, "heightRange")
        \cup {-(ONE \div 16), ONE + ONE \div 16}

(***************************************************************************)
(* checkBiomes, lines 684-707.                                             *)
(***************************************************************************)
\* The test with only its first two clauses: an end point of biome2's range
\* inside biome1's.
EndPointOfSecondInside(r1, r2) ==
    \/ (r2[1] >= r1[1] /\ r2[1] <= r1[2])
    \/ (r2[2] >= r1[1] /\ r2[2] <= r1[2])

\* tempOverlap and humidOverlap, lines 691-694 and 697-700: r1 is biome1's
\* range, r2 is biome2's.
RangesOverlap(r1, r2) ==
    \/ (r2[1] >= r1[1] /\ r2[1] <= r1[2])
    \/ (r2[2] >= r1[1] /\ r2[2] <= r1[2])
    \/ (r1[1] >= r2[1] /\ r1[1] <= r2[2])
    \/ (r1[2] >= r2[1] /\ r1[2] <= r2[2])

\* if (tempOverlap && humidOverlap) { console.warn(...) }
Overlapping(biome1, biome2) ==
    /\ RangesOverlap(biome1.temperatureRange, biome2.temperatureRange)
    /\ RangesOverlap(biome1.humidityRange, biome2.humidityRange)

(***************************************************************************)
(* SpecBiome: checkBiomes() runs once over the table (line 708), then      *)
(* cells are classified one at a time.                                     *)
(***************************************************************************)
BiomeLength == Cardinality(DOMAIN biomes)

\* The biome variables of a specification that does not run this code.
BiomeIdle ==
    /\ biomes = ProgramBiomes
    /\ temp = None
    /\ humid = None
    /\ height = None
    /\ viableBiomes = None
    /\ selectedBiome = None
    /\ ci = 0
    /\ cj = 0
    /\ warnings = <<>>

\* Line 685-686: checkBiomes is entered with i = 0 and j = i + 1.
BiomeInit ==
    /\ pc = "check"
    /\ biomes \in BiomeTables
    /\ temp = None
    /\ humid = None
    /\ height = None
    /\ viableBiomes = None
    /\ selectedBiome = None
    /\ ci = 0
    /\ cj = 1
    /\ warnings = <<>>

\* The body of the inner loop, had it resolved an overlap it found by
\* lowering the weight of the second biome.
CheckPairResolving ==
    /\ pc = "check"
    /\ ci < BiomeLength
    /\ cj < BiomeLength
    /\ warnings' = IF Overlapping(biomes[ci], biomes[cj])
                   THEN Append(warnings, <<ci, cj>>)
                   ELSE warnings
    /\ biomes' = IF Overlapping(biomes[ci], biomes[cj])
                 THEN [biomes EXCEPT ![cj].weight = 0]
                 ELSE biomes
    /\ cj' = cj + 1
    /\ UNCHANGED <<pc, temp, humid, height, viableBiomes, selectedBiome, ci>>

\* Lines 687-705: the body of the inner loop for one pair (i, j).
CheckPair ==
    /\ pc = "check"
    /\ ci < BiomeLength
    /\ cj < BiomeLength
    /\ warnings' = IF Overlapping(biomes[ci], biomes[cj])
                   THEN Append(warnings, <<ci, cj>>)
                   ELSE warnings
    /\ cj' = cj + 1
    /\ UNCHANGED <<pc, biomes, temp, humid, height, viableBiomes, selectedBiome, ci>>

\* Line 685-686: the inner loop has ended; i++ and j = i + 1.
CheckNextRow ==
    /\ pc = "check"
    /\ ci < BiomeLength
    /\ cj >= BiomeLength
    /\ ci' = ci + 1
    /\ cj' = ci + 2
    /\ UNCHANGED <<pc, biomes, temp, humid, height, viableBiomes, selectedBiome,
                   warnings>>

\* Line 685: the outer loop has ended and checkBiomes returns.
CheckReturn ==
    /\ pc = "check"
    /\ ci >= BiomeLength
    /\ pc' = "sample"
    /\ UNCHANGED biomeVars

\* Lines 562-580: one cell with temperature t, humidity h and height z.
Classify(t, h, z) ==
    /\ pc = "sample"
    /\ temp' = t
    /\ humid' = h
    /\ height' = z
    /\ viableBiomes' = Filter(biomes, t, h, z)
    /\ selectedBiome' = SelectBiome(biomes, viableBiomes')
    /\ pc' = "classified"
    /\ UNCHANGED <<biomes, ci, cj, warnings>>

\* Lines 582-583: the cell is stored, the constants of the loop body go out
\* of scope and the loop goes on to the next cell.
NextCell ==
    /\ pc = "classified"
    /\ temp' = None
    /\ humid' = None
    /\ height' = None
    /\ viableBiomes' = None
    /\ selectedBiome' = None
    /\ pc' = "sample"
    /\ UNCHANGED <<biomes, ci, cj, warnings>>

(***************************************************************************)
(* generateNoiseMap as a state machine.                                    *)
(*                                                                         *)
(* SpecShuffle runs the prologue of a call one swap at a time: the         *)
(* identity array, the Fisher-Yates loop, the duplicated table.            *)
(* SpecNoise runs whole calls, one after the other, and remembers the      *)
(* first call that returned.                                               *)
(***************************************************************************)
NoiseCall(w, h, s, sc, oc, pe, la, ox, oy) ==
    [width |-> w, height |-> h, seed |-> s, scale |-> sc, octaves |-> oc,
     persistence |-> pe, lacunarity |-> la, offsetX |-> ox, offsetY |-> oy]

\* The defaults of the signature: scale 0.1, octaves 4, persistence 0.5,
\* lacunarity 2.0, offsets 0.
DefaultCall(w, h, s) ==
    NoiseCall(w, h, s, ONE \div 10, 4, ONE \div 2, Num(2), 0, 0)

\* The calls of SpecNoise: coordinates in halves, so that the fixed-point
\* values are the doubles of the source.
RegularCalls ==
    { NoiseCall(w, h, s, ONE \div 2, oc, ONE \div 2, la, o, o) :
        w \in {1, MaxDim}, h \in {1, MaxDim}, s \in {0, MaxSeed},
        oc \in {1, MaxOctaves}, la \in {ONE, Num(2)}, o \in {0, Num(5)} }

\* Calls with fewer octaves than one.
LowOctaveCalls ==
    { NoiseCall(MaxDim, MaxDim, s, ONE \div 2, oc, ONE \div 2, Num(2), Num(5), Num(5)) :
        s \in {0, MaxSeed}, oc \in {0, -1} }

\* Calls with scale = 0.
ZeroScaleCalls ==
    { NoiseCall(MaxDim, MaxDim, s, 0, oc, ONE \div 2, Num(2), o, o) :
        s \in {0, MaxSeed}, oc \in {1, MaxOctaves}, o \in {0, Num(5) \div 2} }

NoiseCalls == RegularCalls \cup LowOctaveCalls \cup ZeroScaleCalls

\* Lines 500-523 for each call of the model: the grid it fills.
NoiseGridFor == [c \in NoiseCalls |-> NoiseGrid(TableFor[c.seed], c)]


\* The loop variables outside a call.
LoopIdle ==
    /\ loopCall = None
    /\ loopY = 0
    /\ loopX = 0
    /\ loopOctave = 0

SeamIdle == seamIn = None /\ seamOut = None /\ lookup = None

\* Lines 276-283: the variables of _setupResizing as they are declared.
NoStart ==
    [startX |-> 0, startY |-> 0, startWidth |-> 0, startHeight |-> 0,
     startLeft |-> 0, startTop |-> 0]

ResizeIdle ==
    /\ isResizing = FALSE
    /\ resizeDirection = {}
    /\ resizeStart = NoStart
    /\ resizeListening = FALSE
    /\ movedBy = {}
    /\ lastEvent = "none"
    /\ gestures = 0

\* The window of a specification in which no pointer event arrives: 800 x 600
\* (lines 133-134) at the top left of the desktop, below the topbar.
DragIdle ==
    /\ isDragging = FALSE
    /\ dragListening = FALSE
    /\ dragOffset = <<0, 0>>
    /\ stylePosition = <<0, TopbarHeight>>
    /\ windowSize = <<800, 600>>
    /\ desktopSize = <<1280, 720>>
    /\ dragWritten = FALSE
    /\ ResizeIdle

\* The keys of the model: one that moves the camera and the one that blurs
\* the window (lines 766 and 801).
Keys == {"w", "Escape"}

\* Lines 100-104, 143 and 759: the window as constructed, not focused, and
\* the camera as init() leaves it.
InputIdle ==
    /\ focused = FALSE
    /\ pointerlock = FALSE
    /\ exHooks = FALSE
    /\ mousex = 0
    /\ mousey = 0
    /\ mousebuttons = 0
    /\ keys = {}
    /\ camera = [yaw |-> 0, pitch |-> 0, forward |-> 0]
    /\ frames = 0
    /\ lastKeyEvent = [k \in Keys |-> "none"]
    /\ quiet = FALSE
    /\ released = FALSE
    /\ deltaPending = FALSE
    /\ deltaReads = 0
    /\ deltaDropped = FALSE

RestIdle == LoopIdle /\ SeamIdle /\ DragIdle /\ InputIdle

\* The terrain variables before generateTerrainMesh is called.
TerrainIdle ==
    /\ terrainCall = None
    /\ geometry = None
    /\ terrainNoiseMap = None
    /\ temperatureMap = None
    /\ humidityMap = None
    /\ biomeMap = None
    /\ colors = None
    /\ rowZ = 0
    /\ colX = 0
    /\ vertex = 0

NoiseInit ==
    /\ call = DefaultCall(1, 1, 0)
    /\ permutation = None
    /\ i = 0
    /\ p = None
    /\ noiseMap = None
    /\ firstCall = None
    /\ firstMap = None
    /\ between = FALSE

\* Lines 458-461: the identity array, then the loop header i = 255.
ShuffleEnter(c) ==
    /\ pc = "entry"
    /\ call' = c
    /\ permutation' = IdentityPermutation
    /\ i' = PermSize - 1
    /\ p' = None
    /\ pc' = "shuffle"
    /\ UNCHANGED <<noiseMap, firstCall, firstMap, between>>

\* Lines 470-473: one iteration of the Fisher-Yates loop.
ShuffleSwap ==
    /\ pc = "shuffle"
    /\ i > 0
    /\ permutation' = ShuffleStep(permutation, call.seed, i)
    /\ i' = i - 1
    /\ UNCHANGED <<pc, call, p, noiseMap, firstCall, firstMap, between>>

\* Line 474: the loop has ended, the table is duplicated.
ShuffleDone ==
    /\ pc = "shuffle"
    /\ i = 0
    /\ p' = Duplicate(permutation)
    /\ pc' = "entry"
    /\ UNCHANGED <<call, permutation, i, noiseMap, firstCall, firstMap, between>>

ShuffleInit == pc = "entry" /\ NoiseInit /\ BiomeIdle /\ TerrainIdle /\ RestIdle

ShuffleNext ==
    \/ \E s \in Seeds \cup NonFiniteSeeds :
          ShuffleEnter(DefaultCall(1, 1, s)) /\ UNCHANGED <<biomeVars, terrainVars, restVars>>
    \/ ShuffleSwap /\ UNCHANGED <<biomeVars, terrainVars, restVars>>
    \/ ShuffleDone /\ UNCHANGED <<biomeVars, terrainVars, restVars>>

SpecShuffle == ShuffleInit /\ [][ShuffleNext]_vars

\* Lines 446-524: a whole call.
generateNoiseMap(c) ==
    /\ pc = "idle"
    /\ call' = c
    /\ permutation' = ShuffledFor[c.seed]
    /\ i' = 0
    /\ p' = TableFor[c.seed]
    /\ noiseMap' = NoiseGridFor[c]
    /\ firstCall' = IF firstCall = None THEN c ELSE firstCall
    /\ firstMap' = IF firstCall = None THEN noiseMap' ELSE firstMap
    /\ between' = (between \/ (firstCall # None /\ c # firstCall))
    /\ UNCHANGED pc

NoiseSpecInit == pc = "idle" /\ NoiseInit /\ BiomeIdle /\ TerrainIdle /\ RestIdle

NoiseNext == \E c \in NoiseCalls : generateNoiseMap(c) /\ UNCHANGED <<biomeVars, terrainVars, restVars>>

SpecNoise == NoiseSpecInit /\ [][NoiseNext]_vars

(***************************************************************************)
(* SpecLoops: the three nested loops of generateNoiseMap, lines 500-523,   *)
(* one test of a loop condition per step, for any numbers as width, height *)
(* and octaves.  The body of the octave loop computes a sample and has no  *)
(* effect on the counters.  A counter that is compared with Infinity is    *)
(* kept modulo LoopCap: each of its values is below Infinity.              *)
(***************************************************************************)
LoopCall(w, h, oc) == [width |-> w, height |-> h, octaves |-> oc]

\* Zero, negative, whole, fractional and non-finite numbers.
LoopNumbers ==
    {0, -ONE, ONE, ONE + ONE \div 2, Num(2), NaN, PlusInfinity, MinusInfinity}

LoopCalls ==
    { LoopCall(w, h, oc) : w \in LoopNumbers, h \in LoopNumbers, oc \in LoopNumbers }

\* counter < limit, for a counter that is a whole number.
Less(counter, limit) ==
    IF limit = NaN THEN FALSE
    ELSE IF limit = PlusInfinity THEN TRUE
    ELSE IF limit = MinusInfinity THEN FALSE
    ELSE Num(counter) < limit

\* counter++ in a loop that runs while counter < limit.
Increment(counter, limit) ==
    IF limit = PlusInfinity THEN (counter + 1) % LoopCap ELSE counter + 1

LoopInit == pc = "idle" /\ NoiseInit /\ BiomeIdle /\ TerrainIdle /\ RestIdle

\* Lines 500-501: const noiseMap = []; let y = 0.
LoopEnter(c) ==
    /\ pc = "idle"
    /\ loopCall' = c
    /\ loopY' = 0
    /\ loopX' = 0
    /\ loopOctave' = 0
    /\ pc' = "rows"

\* Line 501: y < height; lines 502-503 enter the row, line 523 returns.
RowTest ==
    /\ pc = "rows"
    /\ IF Less(loopY, loopCall.height)
       THEN loopX' = 0 /\ pc' = "columns"
       ELSE loopX' = loopX /\ pc' = "returned"
    /\ UNCHANGED <<loopCall, loopY, loopOctave>>

\* Line 503: x < width; lines 504-508 enter the cell, line 501 does y++.
ColumnTest ==
    /\ pc = "columns"
    /\ IF Less(loopX, loopCall.width)
       THEN loopOctave' = 0 /\ loopY' = loopY /\ pc' = "octaves"
       ELSE /\ loopOctave' = loopOctave
            /\ loopY' = Increment(loopY, loopCall.height)
            /\ pc' = "rows"
    /\ UNCHANGED <<loopCall, loopX>>

\* Line 508: octave < octaves; lines 509-515 and octave++, or lines 519 and
\* 503, the cell is stored and x++.
OctaveTest ==
    /\ pc = "octaves"
    /\ IF Less(loopOctave, loopCall.octaves)
       THEN /\ loopOctave' = Increment(loopOctave, loopCall.octaves)
            /\ loopX' = loopX
            /\ pc' = pc
       ELSE /\ loopOctave' = loopOctave
            /\ loopX' = Increment(loopX, loopCall.width)
            /\ pc' = "columns"
    /\ UNCHANGED <<loopCall, loopY>>

LoopNext ==
    \/ \E c \in LoopCalls :
          LoopEnter(c) /\ UNCHANGED <<noiseVars, biomeVars, terrainVars, seamVars, dragVars, inputVars>>
    \/ RowTest /\ UNCHANGED <<noiseVars, biomeVars, terrainVars, seamVars, dragVars, inputVars>>
    \/ ColumnTest /\ UNCHANGED <<noiseVars, biomeVars, terrainVars, seamVars, dragVars, inputVars>>
    \/ OctaveTest /\ UNCHANGED <<noiseVars, biomeVars, terrainVars, seamVars, dragVars, inputVars>>

\* The engine runs the call to its end without giving up the thread: a
\* step that can be taken is taken.
SpecLoops == LoopInit /\ [][LoopNext]_vars /\ WF_vars(LoopNext)

(***************************************************************************)
(* SpecSeam: the interpolation of noise on the two sides of a lattice      *)
(* line.  Along x the line between the cells X and X+1 is reached with     *)
(* fraction 1 in cell X and with fraction 0 in cell (X+1) & 255; along y   *)
(* likewise.  The other coordinate is at the fraction t of its cell.       *)
(***************************************************************************)
LatticeLines == {0, 1, PermSize - 2, PermSize - 1}

Fractions == {(k * ONE) \div SeamSteps : k \in 0..(SeamSteps - 1)}

SeamInputs ==
    [seed : {0, MaxSeed}, X : LatticeLines, Y : LatticeLines, t : Fractions,
     axis : {"x", "y"}]

\* The value in the cell before the line, at fraction 1.
SeamBefore(in) ==
    IF in.axis = "x" THEN Interpolate(TableFor[in.seed], in.X, in.Y, ONE, in.t)
    ELSE Interpolate(TableFor[in.seed], in.X, in.Y, in.t, ONE)

\* The value in the cell after the line, at fraction 0; the cell index is
\* masked as in lines 486-487.
SeamAfter(in) ==
    IF in.axis = "x"
    THEN Interpolate(TableFor[in.seed], (in.X + 1) % PermSize, in.Y, 0, in.t)
    ELSE Interpolate(TableFor[in.seed], in.X, (in.Y + 1) % PermSize, in.t, 0)

SeamInit ==
    /\ pc = "seam"
    /\ NoiseInit /\ BiomeIdle /\ TerrainIdle /\ LoopIdle /\ DragIdle /\ InputIdle
    /\ seamIn \in SeamInputs
    /\ seamOut = None
    /\ lookup = None

SampleSeam ==
    /\ pc = "seam"
    /\ seamOut' = <<SeamBefore(seamIn), SeamAfter(seamIn)>>
    /\ pc' = "sampled"
    /\ UNCHANGED <<seamIn, lookup>>

\* The next line is sampled.
NextSeam(in) ==
    /\ pc = "sampled"
    /\ seamIn' = in
    /\ seamOut' = None
    /\ pc' = "seam"
    /\ UNCHANGED lookup

SeamNext ==
    \/ SampleSeam /\ UNCHANGED <<noiseVars, biomeVars, terrainVars, loopVars, dragVars, inputVars>>
    \/ \E in \in SeamInputs :
          NextSeam(in) /\ UNCHANGED <<noiseVars, biomeVars, terrainVars, loopVars, dragVars, inputVars>>

SpecSeam == SeamInit /\ [][SeamNext]_vars

BiomeNext ==
    \/ CheckPair /\ UNCHANGED <<noiseVars, terrainVars, restVars>>
    \/ CheckNextRow /\ UNCHANGED <<noiseVars, terrainVars, restVars>>
    \/ CheckReturn /\ UNCHANGED <<noiseVars, terrainVars, restVars>>
    \/ \E t \in Temperatures(biomes), h \in Humidities(biomes),
          z \in Heights(biomes) : Classify(t, h, z) /\ UNCHANGED <<noiseVars, terrainVars, restVars>>
    \/ NextCell /\ UNCHANGED <<noiseVars, terrainVars, restVars>>

BiomeSpecInit == BiomeInit /\ NoiseInit /\ TerrainIdle /\ RestIdle

SpecBiome == BiomeSpecInit /\ [][BiomeNext]_vars

(***************************************************************************)
(* SpecLookup: the reads of the table p that one call of the noise sample  *)
(* function makes, lines 486-496, for the tables of two seeds and of a     *)
(* seed that is not a number.                                              *)
(***************************************************************************)
\* Line 474 for the seed NaN.
TableOfNaN == Duplicate(Shuffle(IdentityPermutation, NaN))

TableOf(seed) == IF IsFinite(seed) THEN TableFor[seed] ELSE TableOfNaN

\* A mask of nine bits, the length of the table.
MaskOfTableLength(n) == n % (2 * PermSize)

\* Lines 486-487: n & 255, which is in 0..255 for a negative n as well.
Mask(n) == n % PermSize

\* v + w of two numbers, of which v may be undefined.
Plus(v, w) == IF IsFinite(v) /\ IsFinite(w) THEN v + w ELSE NaN

\* Lines 486-496: the indices at which noise(x, y) reads the table: X and
\* X + 1 for a and b, then a, b, a + 1 and b + 1.
TableIndices(tab, x, y) ==
    LET X == Mask(Floor(x))
        Y == Mask(Floor(y))
        a == Plus(Get(tab, X), Y)
        b == Plus(Get(tab, X + 1), Y)
    IN  {X, X + 1, a, b, Plus(a, 1), Plus(b, 1)}

\* Sample coordinates in the middle of the lattice cells of the columns
\* -1..256 and of six rows.
LookupInputs ==
    [seed    : {0, MaxSeed, NaN},
     x       : {Num(k) + ONE \div 2 : k \in (-1)..PermSize},
     y       : {Num(k) + ONE \div 2 : k \in {-1, 0, 1, PermSize - 2, PermSize - 1, PermSize}},
     indices : {None}]

LookupInit ==
    /\ pc = "lookup"
    /\ NoiseInit /\ BiomeIdle /\ TerrainIdle /\ LoopIdle /\ DragIdle /\ InputIdle
    /\ seamIn = None
    /\ seamOut = None
    /\ lookup \in LookupInputs

\* Lines 485-498: one call of noise.
ReadTable ==
    /\ pc = "lookup"
    /\ lookup' = [lookup EXCEPT
                    !.indices = TableIndices(TableOf(lookup.seed), lookup.x, lookup.y)]
    /\ pc' = "looked"
    /\ UNCHANGED <<seamIn, seamOut>>

LookupNext ==
    ReadTable /\ UNCHANGED <<noiseVars, biomeVars, terrainVars, loopVars, dragVars, inputVars>>

SpecLookup == LookupInit /\ [][LookupNext]_vars

(***************************************************************************)
(* SpecTerrain: the one call init() makes of generateTerrainMesh, lines    *)
(* 526-608, statement by statement; the three loops over the mesh run one  *)
(* cell or vertex per step.                                                *)
(*                                                                         *)
(* The temperature and humidity grids are 256 x 256.  The model holds them *)
(* on the rows and columns that a mesh of at most MaxSegments segments     *)
(* reads (lines 560-561); the loop of lines 532-537 treats every cell      *)
(* alike.  At scale 0.01 the fixed-point values of these two grids are     *)
(* rounded to the unit.                                                    *)
(***************************************************************************)
MapSize == 256

TerrainCall(sz, sg, s, sc, oc, pe, la, am, ox, oy, tm, hm) ==
    [size |-> sz, segments |-> sg, seed |-> s, scale |-> sc, octaves |-> oc,
     persistence |-> pe, lacunarity |-> la, amplitude |-> am, offsetX |-> ox,
     offsetY |-> oy, tempModifier |-> tm, humidModifier |-> hm]

\* Modifiers: 0.5 and -0.3 are those of line 720, 0 is the default of the
\* signature, 10 and -10 push every cell past an end of [0,1].
TempModifiers == {Num(10), ONE \div 2, 0, -Num(10)}

HumidModifiers == {-Hundredths(30), 0}

\* The calls of SpecTerrain: size 100 and amplitude 10 as in line 720.
ValidTerrainCalls ==
    { TerrainCall(Num(100), sg, s, ONE \div 2, 2, ONE \div 2, Num(2), Num(10),
                  0, 0, tm, hm) :
        sg \in 1..MaxSegments, s \in {0, MaxSeed},
        tm \in TempModifiers, hm \in HumidModifiers }

\* Calls with a size or a number of segments that is zero or negative.
NonPositiveCalls ==
    { TerrainCall(a[1], a[2], MaxSeed, ONE \div 2, 2, ONE \div 2, Num(2),
                  Num(10), 0, 0, ONE \div 2, -Hundredths(30)) :
        a \in {<<-Num(100), 1>>, <<0, 1>>, <<Num(100), 0>>, <<Num(100), -1>>} }

TerrainCalls == ValidTerrainCalls \cup NonPositiveCalls

EmptyArray == <<>>

Length(arr) == Cardinality(DOMAIN arr)

\* arr.push(v), and arr[k] = v with k <= arr.length.
Push(arr, v) == [k \in 0..Length(arr) |-> IF k < Length(arr) THEN arr[k] ELSE v]

SetAt(arr, k, v) == [n \in DOMAIN arr \cup {k} |-> IF n = k THEN v ELSE arr[n]]

\* The quads of the plane instead of its vertices.
PlaneQuads(planeWidth, planeHeight, widthSegments, heightSegments) ==
    [count   |-> widthSegments * heightSegments,
     y       |-> [k \in 0..(widthSegments * heightSegments - 1) |-> 0],
     rotated |-> FALSE,
     normals |-> None,
     color   |-> None]

\* new three.PlaneGeometry(width, height, widthSegments, heightSegments):
\* (widthSegments+1) * (heightSegments+1) vertices, row by row from the top
\* edge y = height/2 down, no normals yet of displaced vertices, no colours.
\* The two loops over the vertices run gridY1 and gridX1 times, not at all
\* when these are not positive; with heightSegments = 0 the row height is
\* height / 0 and y is 0 * Infinity = NaN.
PlaneGeometry(planeWidth, planeHeight, widthSegments, heightSegments) ==
    LET gridX1 == widthSegments + 1
        gridY1 == heightSegments + 1
    IN  [count   |-> gridX1 * gridY1,
         y       |-> [k \in 0..(gridX1 * gridY1 - 1) |->
                        IF heightSegments = 0 THEN NaN
                        ELSE planeHeight \div 2
                               - ((k \div gridX1) * planeHeight) \div heightSegments],
         rotated |-> FALSE,
         normals |-> None,
         color   |-> None]

\* Line 528: the height grid of the call.
TerrainNoiseCall(c) ==
    NoiseCall(c.segments + 1, c.segments + 1, c.seed, c.scale, c.octaves,
              c.persistence, c.lacunarity, c.offsetX, c.offsetY)

\* Lines 530-531: generateNoiseMap(256, 256, seed, 0.01, 4, 0.5, 2.0, ...).
ClimateCall(c) ==
    NoiseCall(MapSize, MapSize, c.seed, Hundredths(1), 4, ONE \div 2, Num(2),
              c.offsetX, c.offsetY)

\* The coordinate scaled by the size of the grid instead of its last index.
ClimateIndexBySize(coord, segments) == (coord * MapSize) \div segments

\* Lines 560-561: Math.floor(z * 255 / segments).
ClimateIndex(coord, segments) == (coord * 255) \div segments

\* The rows and columns of the 256 x 256 grids the model holds.
ClimateIndices ==
    {ClimateIndex(coord, sg) : coord \in 0..MaxSegments, sg \in 1..MaxSegments}
        \cap 0..(MapSize - 1)

ClimateGrid(c) ==
    [z \in ClimateIndices |->
        [x \in ClimateIndices |-> NoiseCell(TableFor[c.seed], ClimateCall(c), x, z)]]

\* Line 530: let temperatureMap = generateNoiseMap(256, 256, seed, ...).
TemperatureGrid(c) == ClimateGrid(c)

\* The humidity grid, had it been made from the next seed.
HumidityGridOfNextSeed(c) ==
    ClimateGrid([c EXCEPT !.seed = (c.seed + 1) % (MaxSeed + 1)])

\* Line 531: let humidityMap = generateNoiseMap(256, 256, seed, ...), a
\* second call with the arguments of the first.
HumidityGrid(c) == ClimateGrid(c)

\* Lines 532-537 for one grid.
Modified(map, modifier) ==
    [z \in DOMAIN map |->
        [x \in DOMAIN map[z] |-> clamp(map[z][x] + modifier, 0, ONE)]]

\* color.r, color.g, color.b of new three.Color(color).
ColorTriple(color) == << <<color, "r">>, <<color, "g">>, <<color, "b">> >>

\* Lines 599-604: the colours of the biome grid, row by row.
RECURSIVE PushColors(_, _, _, _, _)
PushColors(table, map, y, x, acc) ==
    IF y >= Length(map) THEN acc
    ELSE IF x >= Length(map[y]) THEN PushColors(table, map, y + 1, 0, acc)
    ELSE PushColors(table, map, y, x + 1,
                    acc \o ColorTriple(table[map[y][x]].color))

TerrainInit == pc = "idle" /\ NoiseInit /\ BiomeIdle /\ TerrainIdle /\ RestIdle

\* Lines 526-531: the call, the plane, the height grid and the two climate
\* grids.
generateTerrainMesh(c) ==
    /\ pc = "idle"
    /\ terrainCall' = c
    /\ geometry' = PlaneGeometry(c.size, c.size, c.segments, c.segments)
    /\ terrainNoiseMap' = NoiseGrid(TableFor[c.seed], TerrainNoiseCall(c))
    /\ temperatureMap' = TemperatureGrid(c)
    /\ humidityMap' = HumidityGrid(c)
    /\ pc' = "modifiers"
    /\ UNCHANGED <<biomeMap, colors, rowZ, colX, vertex>>

\* Lines 532-555: both grids are shifted and clamped, the averages are
\* logged, and the classification loop is entered with an empty biomeMap.
ApplyModifiers ==
    /\ pc = "modifiers"
    /\ temperatureMap' = Modified(temperatureMap, terrainCall.tempModifier)
    /\ humidityMap' = Modified(humidityMap, terrainCall.humidModifier)
    /\ biomeMap' = EmptyArray
    /\ rowZ' = 0
    /\ colX' = 0
    /\ pc' = "classify"
    /\ UNCHANGED <<terrainCall, geometry, terrainNoiseMap, colors, vertex>>

\* Lines 558-583: one cell of the classification loop.
ClassifyCell ==
    /\ pc = "classify"
    /\ rowZ <= terrainCall.segments
    /\ terrainCall.segments # 0
    /\ LET tempZ == ClimateIndex(rowZ, terrainCall.segments)
           tempX == ClimateIndex(colX, terrainCall.segments)
           row   == IF colX = 0 THEN EmptyArray ELSE biomeMap[rowZ]
       IN  /\ temp' = temperatureMap[tempZ][tempX]
           /\ humid' = humidityMap[tempZ][tempX]
           /\ height' = terrainNoiseMap[rowZ][colX]
           /\ viableBiomes' = Filter(biomes, temp', humid', height')
           /\ selectedBiome' = SelectBiome(biomes, viableBiomes')
           /\ biomeMap' = SetAt(biomeMap, rowZ, Push(row, selectedBiome'))
    /\ IF colX < terrainCall.segments
       THEN colX' = colX + 1 /\ rowZ' = rowZ
       ELSE colX' = 0 /\ rowZ' = rowZ + 1
    /\ UNCHANGED <<pc, biomes, ci, cj, warnings, terrainCall, geometry,
                   terrainNoiseMap, temperatureMap, humidityMap, colors, vertex>>

\* Lines 560-562 with segments = 0: z * 255 / segments is 0 / 0 = NaN,
\* temperatureMap[NaN] is undefined, and reading [tempX] of undefined throws
\* a TypeError, which nothing catches: the call ends without a mesh.
ClassifyThrows ==
    /\ pc = "classify"
    /\ rowZ <= terrainCall.segments
    /\ terrainCall.segments = 0
    /\ pc' = "threw"
    /\ UNCHANGED <<biomeVars, terrainVars>>

\* Lines 585-590: the loop has ended; the plane is rotated so that Y is up,
\* which leaves the flat plane at Y = 0, and the displacement loop is entered.
RotateGeometry ==
    /\ pc = "classify"
    /\ rowZ > terrainCall.segments
    /\ geometry' = [geometry EXCEPT !.rotated = TRUE,
                                    !.y = [k \in DOMAIN geometry.y |-> 0]]
    /\ vertex' = 0
    /\ pc' = "displace"
    /\ UNCHANGED <<biomeVars, terrainCall, terrainNoiseMap, temperatureMap,
                   humidityMap, biomeMap, colors, rowZ, colX>>

\* The row of a vertex taken for its column.
VertexColumnTransposed(index, segments) == index \div (segments + 1)

\* Line 591: x = i % (segments + 1).
VertexColumn(index, segments) == index % (segments + 1)

\* Line 592: z = Math.floor(i / (segments + 1)).
VertexRow(index, segments) == index \div (segments + 1)

\* Lines 591-594: one vertex of the displacement loop.
DisplaceVertex ==
    /\ pc = "displace"
    /\ vertex < geometry.count
    /\ LET x == VertexColumn(vertex, terrainCall.segments)
           z == VertexRow(vertex, terrainCall.segments)
           y == Mul(terrainNoiseMap[z][x], terrainCall.amplitude)
       IN  geometry' = [geometry EXCEPT !.y[vertex] = y]
    /\ vertex' = vertex + 1
    /\ UNCHANGED <<pc, biomeVars, terrainCall, terrainNoiseMap, temperatureMap,
                   humidityMap, biomeMap, colors, rowZ, colX>>

\* The normals of the plane as it was before the displacement loop.
NormalsOfFlatPlane ==
    /\ pc = "displace"
    /\ vertex >= geometry.count
    /\ geometry' = [geometry EXCEPT !.normals = [k \in DOMAIN geometry.y |-> 0]]
    /\ colors' = <<>>
    /\ pc' = "colors"
    /\ UNCHANGED <<biomeVars, terrainCall, terrainNoiseMap, temperatureMap,
                   humidityMap, biomeMap, rowZ, colX, vertex>>

\* Lines 596-598: the loop has ended; the normals are computed from the
\* positions as they are now, and colors starts empty.
ComputeVertexNormals ==
    /\ pc = "displace"
    /\ vertex >= geometry.count
    /\ geometry' = [geometry EXCEPT !.normals = geometry.y]
    /\ colors' = <<>>
    /\ pc' = "colors"
    /\ UNCHANGED <<biomeVars, terrainCall, terrainNoiseMap, temperatureMap,
                   humidityMap, biomeMap, rowZ, colX, vertex>>

\* Lines 599-607: the colours are pushed, set as the attribute 'color' with
\* item size 3, and the mesh is returned.
SetColors ==
    /\ pc = "colors"
    /\ colors' = PushColors(biomes, biomeMap, 0, 0, colors)
    /\ geometry' = [geometry EXCEPT !.color = [array |-> colors', itemSize |-> 3]]
    /\ pc' = "returned"
    /\ UNCHANGED <<biomeVars, terrainCall, terrainNoiseMap, temperatureMap,
                   humidityMap, biomeMap, rowZ, colX, vertex>>

TerrainNext ==
    \/ \E c \in TerrainCalls :
          generateTerrainMesh(c) /\ UNCHANGED <<noiseVars, biomeVars, restVars>>
    \/ ApplyModifiers /\ UNCHANGED <<noiseVars, biomeVars, restVars>>
    \/ ClassifyCell /\ UNCHANGED <<noiseVars, restVars>>
    \/ ClassifyThrows /\ UNCHANGED <<noiseVars, restVars>>
    \/ RotateGeometry /\ UNCHANGED <<noiseVars, restVars>>
    \/ DisplaceVertex /\ UNCHANGED <<noiseVars, restVars>>
    \/ ComputeVertexNormals /\ UNCHANGED <<noiseVars, restVars>>
    \/ SetColors /\ UNCHANGED <<noiseVars, restVars>>

SpecTerrain == TerrainInit /\ [][TerrainNext]_vars

(***************************************************************************)
(* SpecPipeline: the module-level call of checkBiomes (line 708) followed  *)
(* by the call of generateTerrainMesh that init() makes (line 720), on the *)
(* table of lines 624-683.                                                 *)
(***************************************************************************)
PipelineInit ==
    /\ pc = "check"
    /\ NoiseInit
    /\ biomes = ProgramBiomes
    /\ temp = None
    /\ humid = None
    /\ height = None
    /\ viableBiomes = None
    /\ selectedBiome = None
    /\ ci = 0
    /\ cj = 1
    /\ warnings = <<>>
    /\ TerrainIdle
    /\ RestIdle

\* Lines 685 and 708: the outer loop has ended, checkBiomes returns to the
\* module level, from where init() is called later.
CheckBiomesReturn ==
    /\ pc = "check"
    /\ ci >= BiomeLength
    /\ pc' = "idle"
    /\ UNCHANGED biomeVars

PipelineNext ==
    \/ CheckPair /\ UNCHANGED <<noiseVars, terrainVars, restVars>>
    \/ CheckNextRow /\ UNCHANGED <<noiseVars, terrainVars, restVars>>
    \/ CheckBiomesReturn /\ UNCHANGED <<noiseVars, terrainVars, restVars>>
    \/ \E c \in TerrainCalls :
          generateTerrainMesh(c) /\ UNCHANGED <<noiseVars, biomeVars, restVars>>
    \/ ApplyModifiers /\ UNCHANGED <<noiseVars, biomeVars, restVars>>
    \/ ClassifyCell /\ UNCHANGED <<noiseVars, restVars>>
    \/ ClassifyThrows /\ UNCHANGED <<noiseVars, restVars>>
    \/ RotateGeometry /\ UNCHANGED <<noiseVars, restVars>>
    \/ DisplaceVertex /\ UNCHANGED <<noiseVars, restVars>>
    \/ ComputeVertexNormals /\ UNCHANGED <<noiseVars, restVars>>
    \/ SetColors /\ UNCHANGED <<noiseVars, restVars>>

SpecPipeline == PipelineInit /\ [][PipelineNext]_vars

(***************************************************************************)
(* SpecDrag: dragging a window by its toolbar, lines 230-270.  Lengths are *)
(* in px.  The desktop <main> has its top left corner at the origin of the *)
(* viewport, so that getBoundingClientRect() of the window is its style    *)
(* position.                                                               *)
(***************************************************************************)
\* clientWidth and clientHeight of <main>: a desktop screen and a small one.
DesktopSizes == {<<1280, 720>>, <<640, 480>>}

\* The window as it is created (lines 133-134) and after it was resized to
\* half of that.
WindowSizes == {<<800, 600>>, <<400, 300>>}

\* clientX and clientY of the pointer events: points down a diagonal of the
\* desktop from the top left corner of the window as it is created.
Pointers == {<<k * 160, TopbarHeight + k * 80>> : k \in 0..DragSteps}

DragInit ==
    /\ pc = "desktop"
    /\ NoiseInit /\ BiomeIdle /\ TerrainIdle /\ LoopIdle /\ SeamIdle /\ InputIdle
    /\ isDragging = FALSE
    /\ dragListening = FALSE
    /\ dragOffset = <<0, 0>>
    /\ stylePosition = <<0, TopbarHeight>>
    /\ windowSize \in WindowSizes
    /\ desktopSize \in DesktopSizes
    /\ dragWritten = FALSE
    /\ ResizeIdle

\* The pointer is over the window, of which the toolbar is a part.
OverWindow(clientX, clientY) ==
    /\ stylePosition[1] <= clientX
    /\ clientX <= stylePosition[1] + windowSize[1]
    /\ stylePosition[2] <= clientY
    /\ clientY <= stylePosition[2] + windowSize[2]

\* Line 286: const edgeThreshold = 10.
edgeThreshold == 10

\* Lines 285-297: getResizeDirection, for a pointer at (x, y) from the top
\* left corner of a window of the given size; the string of letters is held
\* as their set.
getResizeDirection(x, y, size) ==
    (IF y < edgeThreshold THEN {"n"} ELSE {})
        \cup (IF y > size[2] - edgeThreshold THEN {"s"} ELSE {})
        \cup (IF x < edgeThreshold THEN {"w"} ELSE {})
        \cup (IF x > size[1] - edgeThreshold THEN {"e"} ELSE {})

\* Lines 312-329: the mousedown listener of the window that _setupResizing
\* adds.
StartResize(clientX, clientY) ==
    LET direction == getResizeDirection(clientX - stylePosition[1],
                                        clientY - stylePosition[2], windowSize)
    IN  /\ resizeDirection' = direction
        /\ IF direction # {}
           THEN /\ isResizing' = TRUE
                /\ resizeStart' =
                      [startX |-> clientX, startY |-> clientY,
                       startWidth |-> windowSize[1], startHeight |-> windowSize[2],
                       startLeft |-> stylePosition[1], startTop |-> stylePosition[2]]
                /\ resizeListening' = TRUE
           ELSE UNCHANGED <<isResizing, resizeStart, resizeListening>>

\* Lines 236-244 and 312-329: mousedown on the toolbar; the listener of the
\* toolbar runs, then the event bubbles to the window and its listener runs.
ToolbarMouseDown(clientX, clientY) ==
    /\ pc = "desktop"
    /\ gestures < MaxGestures
    /\ OverWindow(clientX, clientY)
    /\ isDragging' = TRUE
    /\ dragOffset' = <<clientX - stylePosition[1], clientY - stylePosition[2]>>
    /\ dragListening' = TRUE
    /\ StartResize(clientX, clientY)
    /\ lastEvent' = "mousedown"
    /\ gestures' = gestures + 1
    /\ UNCHANGED <<pc, stylePosition, windowSize, desktopSize, dragWritten, movedBy>>

\* Lines 312-329: mousedown on the window outside its toolbar.
ResizeMouseDown(clientX, clientY) ==
    /\ pc = "desktop"
    /\ gestures < MaxGestures
    /\ OverWindow(clientX, clientY)
    /\ StartResize(clientX, clientY)
    /\ lastEvent' = "mousedown"
    /\ gestures' = gestures + 1
    /\ UNCHANGED <<pc, isDragging, dragOffset, dragListening, stylePosition,
                   windowSize, desktopSize, dragWritten, movedBy>>

\* Lines 254-256: the drag listener is added and goes past its early return.
DragRuns == dragListening /\ isDragging

\* Lines 257-261: the position the drag listener writes.
DraggedPosition(clientX, clientY) ==
    <<clamp(clientX - dragOffset[1], 0, desktopSize[1] - windowSize[1]),
      clamp(clientY - dragOffset[2], TopbarHeight, desktopSize[2] - windowSize[2])>>

\* The resize listener without its test of the dragging flag.
ResizeRunsWhileDragging == resizeListening /\ isResizing

\* Line 331: the resize listener is added and goes past its early return.
ResizeRuns == resizeListening /\ isResizing /\ ~isDragging

\* Lines 333-351: the position and the size the resize listener leaves, from
\* the position and the size it finds.
Resized(clientX, clientY, position, size) ==
    LET dx == clientX - resizeStart.startX
        dy == clientY - resizeStart.startY
        eastWidth   == IF "e" \in resizeDirection
                       THEN Max(100, resizeStart.startWidth + dx) ELSE size[1]
        southHeight == IF "s" \in resizeDirection
                       THEN Max(100, resizeStart.startHeight + dy) ELSE size[2]
        westWidth   == Max(100, resizeStart.startWidth - dx)
        northHeight == Max(100, resizeStart.startHeight - dy)
    IN  [size |->
            <<IF "w" \in resizeDirection THEN westWidth ELSE eastWidth,
              IF "n" \in resizeDirection THEN northHeight ELSE southHeight>>,
         position |->
            <<IF "w" \in resizeDirection
              THEN resizeStart.startLeft + (resizeStart.startWidth - westWidth)
              ELSE position[1],
              IF "n" \in resizeDirection
              THEN resizeStart.startTop + (resizeStart.startHeight - northHeight)
              ELSE position[2]>>]

\* Lines 253-263 and 330-352: mousemove on the document; the drag listener
\* runs if it is added, then the resize listener if it is added.
onMouseMove(clientX, clientY) ==
    /\ pc = "desktop"
    /\ dragListening \/ resizeListening
    /\ LET afterDrag == IF DragRuns THEN DraggedPosition(clientX, clientY)
                        ELSE stylePosition
           after == IF ResizeRuns
                    THEN Resized(clientX, clientY, afterDrag, windowSize)
                    ELSE [size |-> windowSize, position |-> afterDrag]
       IN  /\ stylePosition' = after.position
           /\ windowSize' = after.size
    /\ dragWritten' = IF ResizeRuns THEN FALSE ELSE (DragRuns \/ dragWritten)
    /\ movedBy' = (IF DragRuns THEN {"drag"} ELSE {})
                     \cup (IF ResizeRuns THEN {"resize"} ELSE {})
    /\ lastEvent' = "mousemove"
    /\ UNCHANGED <<pc, isDragging, dragListening, dragOffset, desktopSize,
                   isResizing, resizeDirection, resizeStart, resizeListening,
                   gestures>>

\* Lines 264-269 and 353-358: mouseup on the document; each of the two
\* listeners runs if it is added.
onMouseUp ==
    /\ pc = "desktop"
    /\ dragListening \/ resizeListening
    /\ isDragging' = IF dragListening THEN FALSE ELSE isDragging
    /\ dragListening' = FALSE
    /\ isResizing' = IF resizeListening THEN FALSE ELSE isResizing
    /\ resizeDirection' = IF resizeListening THEN {} ELSE resizeDirection
    /\ resizeListening' = FALSE
    /\ lastEvent' = "mouseup"
    /\ UNCHANGED <<pc, dragOffset, stylePosition, windowSize, desktopSize,
                   dragWritten, resizeStart, movedBy, gestures>>

DragNext ==
    \/ \E pointer \in Pointers :
          ToolbarMouseDown(pointer[1], pointer[2])
            /\ UNCHANGED <<noiseVars, biomeVars, terrainVars, loopVars, seamVars, inputVars>>
    \/ \E pointer \in Pointers :
          ResizeMouseDown(pointer[1], pointer[2])
            /\ UNCHANGED <<noiseVars, biomeVars, terrainVars, loopVars, seamVars, inputVars>>
    \/ \E pointer \in Pointers :
          onMouseMove(pointer[1], pointer[2])
            /\ UNCHANGED <<noiseVars, biomeVars, terrainVars, loopVars, seamVars, inputVars>>
    \/ onMouseUp
          /\ UNCHANGED <<noiseVars, biomeVars, terrainVars, loopVars, seamVars, inputVars>>

SpecDrag == DragInit /\ [][DragNext]_vars

(***************************************************************************)
(* SpecInput: the input state of the game window (lines 157-198), its      *)
(* focus handlers (lines 209-225), setPointerLock (lines 411-421) and the  *)
(* part of update() that reads the input (lines 763-847).  Each handler    *)
(* and each animation frame runs to completion before the next starts.     *)
(* Angles are in units of 0.01 rad, the camera position in steps of        *)
(* moveSpeed along its forward vector.                                     *)
(***************************************************************************)
\* Line 820: const rotateSpeed = 0.02.
rotateSpeed == 2

\* Line 839: const maxPitch = Math.PI / 2 - 0.01, rounded down to the unit.
maxPitch == 156

\* e.button of the mouse events: the main and the secondary button.
Buttons == {0, 2}

\* movementX and movementY of the mousemove events under pointer lock.
Movements == {<<-3, 100>>}

\* The pointer relative to the window in the mousemove events without
\* pointer lock.
Positions == {<<10, 20>>}

Bit(button) == 2 ^ button

HasBit(mask, button) == (mask \div Bit(button)) % 2 = 1

\* mask | (1 << button)
SetBit(mask, button) == IF HasBit(mask, button) THEN mask ELSE mask + Bit(button)

\* mask & ~(1 << button)
ClearBit(mask, button) == IF HasBit(mask, button) THEN mask - Bit(button) ELSE mask

InputInit == pc = "input" /\ NoiseInit /\ BiomeIdle /\ TerrainIdle /\ RestIdle

\* Lines 161-169: mousemove on the window.
WindowMouseMove(x, y) ==
    /\ pc = "input"
    /\ mousex' = x
    /\ mousey' = y
    /\ IF pointerlock
       THEN /\ deltaDropped' = (deltaDropped \/ (deltaPending /\ deltaReads = 0))
            /\ deltaPending' = TRUE
            /\ deltaReads' = 0
       ELSE UNCHANGED <<deltaPending, deltaReads, deltaDropped>>
    /\ UNCHANGED <<pc, released, focused, pointerlock, exHooks, mousebuttons, keys, camera,
                   frames, lastKeyEvent, quiet>>

\* Lines 172-175 and 178-181: the body shared by the mouseenter handler and
\* the interval callback.
ResetMovement ==
    /\ IF pointerlock
       THEN /\ mousex' = 0
            /\ mousey' = 0
            /\ deltaDropped' = (deltaDropped \/ (deltaPending /\ deltaReads = 0))
            /\ deltaPending' = FALSE
       ELSE UNCHANGED <<mousex, mousey, deltaPending, deltaDropped>>
    /\ UNCHANGED <<pc, released, focused, pointerlock, exHooks, mousebuttons, keys, camera,
                   frames, lastKeyEvent, quiet, deltaReads>>

\* Lines 171-176: mouseenter on the window.
WindowMouseEnter == pc = "input" /\ ResetMovement

\* Lines 177-182: the callback of setInterval(..., 16).
IntervalReset == pc = "input" /\ ResetMovement

\* Lines 212-215 and 822-824: onfocus; exFocus locks the pointer once
\* update has overridden it.
LockAfterFocus == IF exHooks THEN TRUE ELSE pointerlock

\* Lines 216-221 and 825-827: exBlur unlocks the pointer once update has
\* overridden it.
LockAfterBlur == IF exHooks THEN FALSE ELSE pointerlock

\* The window receives the focus from the keyboard.
Focus ==
    /\ pc = "input"
    /\ ~focused
    /\ focused' = TRUE
    /\ pointerlock' = LockAfterFocus
    /\ UNCHANGED <<pc, released, exHooks, mousex, mousey, mousebuttons, keys, camera, frames,
                   lastKeyEvent, quiet, deltaPending, deltaReads, deltaDropped>>

\* onblur, had it left the keys as they were.
onblurKeepingKeys ==
    /\ pc = "input"
    /\ focused
    /\ focused' = FALSE
    /\ mousebuttons' = 0
    /\ pointerlock' = LockAfterBlur
    /\ lastKeyEvent' = [k \in Keys |-> "none"]
    /\ quiet' = TRUE
    /\ released' = (keys # {} /\ mousebuttons # 0)
    /\ deltaPending' = (deltaPending /\ pointerlock')
    /\ UNCHANGED <<pc, exHooks, mousex, mousey, keys, camera, frames, deltaReads,
                   deltaDropped>>

\* Lines 216-221: onblur, when the window loses the focus.
onblur ==
    /\ pc = "input"
    /\ focused
    /\ focused' = FALSE
    /\ mousebuttons' = 0
    /\ keys' = {}
    /\ pointerlock' = LockAfterBlur
    /\ lastKeyEvent' = [k \in Keys |-> "none"]
    /\ quiet' = TRUE
    /\ released' = (keys # {} /\ mousebuttons # 0)
    /\ deltaPending' = (deltaPending /\ pointerlock')
    /\ UNCHANGED <<pc, exHooks, mousex, mousey, camera, frames, deltaReads,
                   deltaDropped>>

\* Lines 222-224 and 183-185: mousedown on the window; the listener of
\* _setupFocusing focuses the window, then the listener of
\* _setupInputTracking sets the bit of the button.
WindowMouseDown(button) ==
    /\ pc = "input"
    /\ focused' = TRUE
    /\ pointerlock' = IF focused THEN pointerlock ELSE LockAfterFocus
    /\ mousebuttons' = SetBit(mousebuttons, button)
    /\ quiet' = FALSE
    /\ UNCHANGED <<pc, released, exHooks, mousex, mousey, keys, camera, frames,
                   lastKeyEvent, deltaPending, deltaReads, deltaDropped>>

\* Lines 186-188: mouseup on the window.
WindowMouseUp(button) ==
    /\ pc = "input"
    /\ mousebuttons' = ClearBit(mousebuttons, button)
    /\ UNCHANGED <<pc, released, focused, pointerlock, exHooks, mousex, mousey, keys, camera,
                   frames, lastKeyEvent, quiet, deltaPending, deltaReads,
                   deltaDropped>>

\* Lines 189-191: mouseleave on the window.
WindowMouseLeave ==
    /\ pc = "input"
    /\ mousebuttons' = 0
    /\ UNCHANGED <<pc, released, focused, pointerlock, exHooks, mousex, mousey, keys, camera,
                   frames, lastKeyEvent, quiet, deltaPending, deltaReads,
                   deltaDropped>>

\* Lines 192-194: keydown, which the focused window receives.
KeyDown(key) ==
    /\ pc = "input"
    /\ focused
    /\ keys' = keys \cup {key}
    /\ lastKeyEvent' = [lastKeyEvent EXCEPT ![key] = "down"]
    /\ quiet' = FALSE
    /\ UNCHANGED <<pc, released, focused, pointerlock, exHooks, mousex, mousey, mousebuttons,
                   camera, frames, deltaPending, deltaReads, deltaDropped>>

\* Lines 195-197: keyup, which the focused window receives.
KeyUp(key) ==
    /\ pc = "input"
    /\ focused
    /\ keys' = keys \ {key}
    /\ lastKeyEvent' = [lastKeyEvent EXCEPT ![key] = "up"]
    /\ UNCHANGED <<pc, released, focused, pointerlock, exHooks, mousex, mousey, mousebuttons,
                   camera, frames, quiet, deltaPending, deltaReads, deltaDropped>>

\* Lines 763-847: one animation frame.  Escape blurs the focused window
\* (lines 766-768), which runs onblur at once; 'w' moves the camera (lines
\* 801-803); exFocus and exBlur are overridden (lines 822-827); under pointer
\* lock the mouse input is read and applied as yaw and clamped pitch (lines
\* 828-847).  The canvas size and the rendering are left out.
update ==
    /\ pc = "input"
    /\ frames < MaxFrames
    /\ frames' = frames + 1
    /\ LET blurs   == "Escape" \in keys /\ focused
           keysNow == IF blurs THEN {} ELSE keys
           lockNow == IF blurs THEN LockAfterBlur ELSE pointerlock
           deltaX  == mousex
           deltaY  == mousey
       IN  /\ focused' = (focused /\ ~blurs)
           /\ mousebuttons' = IF blurs THEN 0 ELSE mousebuttons
           /\ keys' = keysNow
           /\ lastKeyEvent' = IF blurs THEN [k \in Keys |-> "none"] ELSE lastKeyEvent
           /\ quiet' = (blurs \/ quiet)
           /\ released' = IF blurs THEN (keys # {} /\ mousebuttons # 0) ELSE released
           /\ pointerlock' = lockNow
           /\ exHooks' = TRUE
           /\ camera' =
                 [forward |-> camera.forward + (IF "w" \in keysNow THEN 1 ELSE 0),
                  yaw     |-> IF lockNow THEN camera.yaw - rotateSpeed * deltaX
                              ELSE camera.yaw,
                  pitch   |-> IF lockNow
                              THEN clamp(camera.pitch - rotateSpeed * deltaY,
                                         -maxPitch, maxPitch)
                              ELSE camera.pitch]
           /\ deltaPending' = (deltaPending /\ lockNow)
           /\ deltaReads' = IF lockNow /\ deltaPending THEN deltaReads + 1
                            ELSE deltaReads
    /\ UNCHANGED <<pc, mousex, mousey, deltaDropped>>

InputNext ==
    \/ \E m \in (IF pointerlock THEN Movements ELSE Positions) :
          WindowMouseMove(m[1], m[2])
            /\ UNCHANGED <<noiseVars, biomeVars, terrainVars, loopVars, seamVars, dragVars>>
    \/ WindowMouseEnter
          /\ UNCHANGED <<noiseVars, biomeVars, terrainVars, loopVars, seamVars, dragVars>>
    \/ IntervalReset
          /\ UNCHANGED <<noiseVars, biomeVars, terrainVars, loopVars, seamVars, dragVars>>
    \/ Focus
          /\ UNCHANGED <<noiseVars, biomeVars, terrainVars, loopVars, seamVars, dragVars>>
    \/ onblur
          /\ UNCHANGED <<noiseVars, biomeVars, terrainVars, loopVars, seamVars, dragVars>>
    \/ \E button \in Buttons :
          WindowMouseDown(button)
            /\ UNCHANGED <<noiseVars, biomeVars, terrainVars, loopVars, seamVars, dragVars>>
    \/ \E button \in Buttons :
          WindowMouseUp(button)
            /\ UNCHANGED <<noiseVars, biomeVars, terrainVars, loopVars, seamVars, dragVars>>
    \/ WindowMouseLeave
          /\ UNCHANGED <<noiseVars, biomeVars, terrainVars, loopVars, seamVars, dragVars>>
    \/ \E key \in Keys :
          KeyDown(key)
            /\ UNCHANGED <<noiseVars, biomeVars, terrainVars, loopVars, seamVars, dragVars>>
    \/ \E key \in Keys :
          KeyUp(key)
            /\ UNCHANGED <<noiseVars, biomeVars, terrainVars, loopVars, seamVars, dragVars>>
    \/ update
          /\ UNCHANGED <<noiseVars, biomeVars, terrainVars, loopVars, seamVars, dragVars>>

SpecInput == InputInit /\ [][InputNext]_vars

(***************************************************************************)
(* Properties of the permutation table and of the noise map.               *)
(***************************************************************************)
\* The first 256 entries hold each integer 0..255 exactly once.
IsPermutation(arr) ==
    /\ 0..(PermSize - 1) \subseteq DOMAIN arr
    /\ {arr[k] : k \in 0..(PermSize - 1)} = 0..(PermSize - 1)

\* C1: under SpecShuffle, for any seed, before the loop, after every swap
\* i = 255..1 and after the loop, the array holds each integer 0..255 exactly
\* once, and so do the first 256 entries of the duplicated table once it is
\* built.
C1_PermutationValid ==
    /\ permutation # None => IsPermutation(permutation)
    /\ p # None => IsPermutation([k \in 0..(PermSize - 1) |-> p[k]])

C3_UnitRange ==
    noiseMap # None =>
        \A y \in DOMAIN noiseMap : \A x \in DOMAIN noiseMap[y] :
            0 <= noiseMap[y][x] /\ noiseMap[y][x] <= ONE

(***************************************************************************)
(* Properties of classification and of the overlap check, stated on the    *)
(* rules' ranges themselves.                                               *)
(***************************************************************************)
Contains(range, v) == range[1] <= v /\ v <= range[2]

Matches(biome, t, h, z) ==
    /\ Contains(biome.temperatureRange, t)
    /\ Contains(biome.humidityRange, h)
    /\ biome.heightRange = None \/ Contains(biome.heightRange, z)

\* The rules of the table that match the cell being classified.
Matching == {k \in DOMAIN biomes : Matches(biomes[k], temp, humid, height)}

Classified == pc = "classified"

\* C4: under SpecBiome, when rules match the sample, the selected rule is a
\* matching rule of maximum weight, and the earliest of the table among the
\* matching rules of that weight.
C4_HighestWeightEarliest ==
    (Classified /\ Matching # {}) =>
        /\ selectedBiome \in Matching
        /\ \A k \in Matching :
              /\ biomes[k].weight <= biomes[selectedBiome].weight
              /\ biomes[k].weight = biomes[selectedBiome].weight => selectedBiome <= k

\* C4 witness: two rules of different weight match and the heavier one, later
\* in the table, is selected.
C4_Witness ==
    /\ Classified
    /\ Cardinality(Matching) >= 2
    /\ selectedBiome \in Matching
    /\ \E k \in Matching :
          k < selectedBiome /\ biomes[k].weight < biomes[selectedBiome].weight

\* C5: under SpecBiome, the candidates are exactly the rules whose
\* temperature and humidity ranges contain the sample and whose height range,
\* if any, contains the height; a rule selected as a match is one of them.
C5_CandidatesExact ==
    Classified =>
        /\ {viableBiomes[n] : n \in 1..Len(viableBiomes)} = Matching
        /\ \A m, n \in 1..Len(viableBiomes) :
              m < n => viableBiomes[m] < viableBiomes[n]
        /\ Len(viableBiomes) > 0 => selectedBiome \in Matching

\* C5 witness: a rule heavier than the selected one contains the temperature
\* and the humidity but not the height, and another rule is selected as a
\* match.
C5_Witness ==
    /\ Classified
    /\ Len(viableBiomes) > 0
    /\ \E k \in DOMAIN biomes :
          /\ Contains(biomes[k].temperatureRange, temp)
          /\ Contains(biomes[k].humidityRange, humid)
          /\ biomes[k].heightRange # None
          /\ ~Contains(biomes[k].heightRange, height)
          /\ biomes[k].weight > biomes[selectedBiome].weight
          /\ selectedBiome # k

\* C6: under SpecBiome, every classified cell holds one rule of the table,
\* and when no rule matches it is the first rule of the table.
C6_DefaultFirst ==
    Classified =>
        /\ selectedBiome \in DOMAIN biomes
        /\ Matching = {} => selectedBiome = 0

\* C6 witness: a table of several rules, none of which matches the sample.
C6_Witness ==
    /\ Classified
    /\ Cardinality(DOMAIN biomes) >= 2
    /\ Matching = {}
    /\ viableBiomes = <<>>
    /\ selectedBiome = 0

IsFallback(biome) ==
    /\ biome.temperatureRange = <<0, ONE>>
    /\ biome.humidityRange = <<0, ONE>>
    /\ biome.heightRange = None

InUnitCube ==
    /\ 0 <= temp /\ temp <= ONE
    /\ 0 <= humid /\ humid <= ONE
    /\ 0 <= height /\ height <= ONE

\* C7: under SpecBiome, with a full-range fallback rule in the table, every
\* sample of [0,1]^3 is classified as a rule of the table whose ranges
\* contain it; the default path is not taken.
C7_FallbackTotal ==
    (Classified /\ InUnitCube /\ \E k \in DOMAIN biomes : IsFallback(biomes[k])) =>
        /\ Len(viableBiomes) > 0
        /\ selectedBiome \in DOMAIN biomes
        /\ Matches(biomes[selectedBiome], temp, humid, height)

\* C7 witness: a corner of the cube that only the fallback rule, the second
\* of the table, matches.
C7_Witness ==
    /\ Classified
    /\ temp = ONE /\ humid = 0 /\ height = ONE
    /\ Cardinality(DOMAIN biomes) = 2
    /\ IsFallback(biomes[1])
    /\ Matching = {1}
    /\ selectedBiome = 1

\* Two closed intervals have a point in common.
Intersects(r1, r2) == Max(r1[1], r2[1]) <= Min(r1[2], r2[2])

Reports(a, b) == Cardinality({n \in 1..Len(warnings) : warnings[n] = <<a, b>>})

\* C10: under SpecBiome, once checkBiomes has returned, each pair i < j of the
\* table has been reported exactly once if the two temperature ranges
\* intersect and the two humidity ranges intersect, and not at all
\* otherwise; nothing else has been reported.
C10_OverlapReport ==
    pc # "check" =>
        /\ \A n \in 1..Len(warnings) :
              /\ warnings[n][1] \in DOMAIN biomes
              /\ warnings[n][2] \in DOMAIN biomes
              /\ warnings[n][1] < warnings[n][2]
        /\ \A a, b \in DOMAIN biomes :
              a < b =>
                Reports(a, b) =
                    IF /\ Intersects(biomes[a].temperatureRange,
                                     biomes[b].temperatureRange)
                       /\ Intersects(biomes[a].humidityRange,
                                     biomes[b].humidityRange)
                    THEN 1 ELSE 0

\* C10 witness: the check has run over the two rules with temperature
\* [0,0.5] and [0.3,0.8], humidity [0,1] both, and reported the one pair.
C10_Witness ==
    /\ pc = "sample"
    /\ biomes = OverlapExample
    /\ warnings = << <<0, 1>> >>

(***************************************************************************)
(* Properties of the terrain mesh.                                         *)
(***************************************************************************)
\* The number of entries of a grid, all rows together.
Entries(grid) ==
    Cardinality(UNION {{<<z, x>> : x \in DOMAIN grid[z]} : z \in DOMAIN grid})

Square(n) == n * n

\* C8: under SpecTerrain, the returned mesh has (segments+1)^2 vertices and
\* a colour attribute of 3 * (segments+1)^2 numbers in items of 3, and the
\* height grid, the biome grid and the vertex list have as many entries.
C8_MeshShape ==
    pc = "returned" =>
        /\ geometry.count = Square(terrainCall.segments + 1)
        /\ Length(geometry.y) = geometry.count
        /\ Len(geometry.color.array) = 3 * Square(terrainCall.segments + 1)
        /\ geometry.color.itemSize = 3
        /\ Entries(terrainNoiseMap) = geometry.count
        /\ Entries(biomeMap) = geometry.count

\* C8 witness: the mesh of 4 segments is returned with 25 vertices and 75
\* colour components.
C8_Witness ==
    /\ pc = "returned"
    /\ terrainCall.segments = 4
    /\ geometry.count = 25
    /\ Len(geometry.color.array) = 75

ModifiersApplied == pc \in {"classify", "displace", "colors", "returned"}

C11_ConfigurationError ==
    (terrainCall # None /\ (terrainCall.size <= 0 \/ terrainCall.segments <= 0)) =>
        (pc = "threw" /\ geometry = None)

\* C12: under SpecShuffle, for every seed, finite or not, the shuffle ends
\* and the table it builds has 512 entries, each an integer in 0..255.
C12_TableDefined ==
    (pc = "entry" /\ p # None) =>
        /\ DOMAIN p = 0..(2 * PermSize - 1)
        /\ \A k \in 0..(2 * PermSize - 1) : p[k] \in 0..(PermSize - 1)

\* C13: under SpecNoise, a call with octaves < 1 returns the grid that the
\* call with octaves = 1 and otherwise the same arguments returns.
C13_OctavesClamped ==
    (noiseMap # None /\ call.octaves < 1) =>
        noiseMap = NoiseGrid(TableFor[call.seed], [call EXCEPT !.octaves = 1])

\* C15: under SpecNoise, every cell of the grid of a call with scale = 0
\* holds the same value.
C15_ConstantField ==
    (noiseMap # None /\ call.scale = 0) =>
        \A y \in DOMAIN noiseMap : \A x \in DOMAIN noiseMap[y] :
            noiseMap[y][x] = noiseMap[0][0]

\* C15 witness: a call with scale = 0, several octaves and offsets 2.5 has
\* returned a grid of several rows and columns.
C15_Witness ==
    /\ noiseMap # None
    /\ call.scale = 0
    /\ call.octaves = MaxOctaves
    /\ call.offsetX = Num(5) \div 2
    /\ call.width = MaxDim /\ call.height = MaxDim
    /\ noiseMap[MaxDim - 1][MaxDim - 1] = noiseMap[0][0]

\* C14: under SpecLoops, every call of generateNoiseMap returns, whatever
\* numbers width, height and octaves are.
C14_Terminates == (pc = "rows") ~> (pc = "returned")

\* C16: under SpecSeam, on every lattice line, the wrap from 255 to 0
\* included, the interpolation at fraction 1 of the cell before the line
\* and at fraction 0 of the cell after it give the same value, along x and
\* along y.
C16_Seamless == pc = "sampled" => seamOut[1] = seamOut[2]

\* C16 witness: the line between the cells 255 and 0 along x, sampled half
\* way up the cell, where the noise is not zero.
C16_Witness ==
    /\ pc = "sampled"
    /\ seamIn.axis = "x"
    /\ seamIn.X = PermSize - 1
    /\ seamIn.t = ONE \div 2
    /\ seamOut[1] = seamOut[2]
    /\ seamOut[1] # 0

(***************************************************************************)
(* Properties of the vertex attributes of the returned mesh.               *)
(***************************************************************************)
\* The i-th item of three numbers of a buffer.
Triple(array, index) == SubSeq(array, 3 * index + 1, 3 * index + 3)

\* The cell of the climate grid the classification reads for a cell.
ClimateOf(map, z, x) ==
    map[ClimateIndex(z, terrainCall.segments)][ClimateIndex(x, terrainCall.segments)]

\* C17: under SpecTerrain, in the returned mesh of a call with segments >= 1,
\* for every vertex index i in 0..(segments+1)^2-1, with x = i mod (segments+1)
\* and z = floor(i / (segments+1)), the elevation of vertex i is
\* height[z][x] * amplitude, the i-th triple of the colour buffer is the
\* colour of the biome of cell (z, x), and that biome is the one the
\* classification selects for the climate of the cell and height[z][x].
C17_AttributesAligned ==
    pc = "returned" =>
        LET n == terrainCall.segments + 1
        IN  /\ geometry.count = n * n
            /\ DOMAIN geometry.y = 0..(n * n - 1)
            /\ Len(geometry.color.array) = 3 * n * n
            /\ \A v \in 0..(n * n - 1) :
                  LET x == v % n
                      z == v \div n
                  IN  /\ geometry.y[v] =
                            Mul(terrainNoiseMap[z][x], terrainCall.amplitude)
                      /\ Triple(geometry.color.array, v) =
                            ColorTriple(biomes[biomeMap[z][x]].color)
                      /\ biomeMap[z][x] =
                            SelectBiome(biomes,
                                Filter(biomes, ClimateOf(temperatureMap, z, x),
                                       ClimateOf(humidityMap, z, x),
                                       terrainNoiseMap[z][x]))

\* C17 witness: a mesh of at least 3 x 3 vertices has been returned in which
\* a vertex and the vertex mirrored across the diagonal differ in elevation,
\* and two vertices differ in colour.
C17_Witness ==
    /\ pc = "returned"
    /\ terrainCall.segments >= 2
    /\ LET n == terrainCall.segments + 1
       IN  /\ \E v \in 0..(n * n - 1) :
                  geometry.y[v] # geometry.y[(v % n) * n + (v \div n)]
           /\ \E v, w \in 0..(n * n - 1) :
                  Triple(geometry.color.array, v) # Triple(geometry.color.array, w)

\* The mesh has passed geometry.computeVertexNormals() of line 597.
NormalsComputed == geometry # None /\ pc \in {"colors", "returned"}

\* C18: under SpecTerrain, the normals are absent until every vertex has
\* been displaced; once they are computed they are those of the positions in
\* which every vertex has its displaced elevation, and no later step changes
\* a position, up to and including the returned mesh.
C18_NormalsAfterDisplacement ==
    /\ [](geometry # None =>
            IF NormalsComputed
            THEN /\ geometry.normals = geometry.y
                 /\ vertex >= geometry.count
                 /\ \A v \in DOMAIN geometry.y :
                       geometry.y[v] =
                         Mul(terrainNoiseMap[v \div (terrainCall.segments + 1)]
                                            [v % (terrainCall.segments + 1)],
                             terrainCall.amplitude)
            ELSE geometry.normals = None)
    /\ [][NormalsComputed => geometry'.y = geometry.y]_vars

\* C18 witness: a mesh has been returned whose vertices were displaced to
\* elevations that are not all zero.
C18_Witness ==
    /\ pc = "returned"
    /\ geometry.count >= 4
    /\ geometry.normals # None
    /\ \E v \in DOMAIN geometry.y : geometry.y[v] # 0

(***************************************************************************)
(* Properties of the biome table across the pipeline.                      *)
(***************************************************************************)
\* C19: under SpecPipeline, no step of checkBiomes or of generateTerrainMesh
\* changes the biome table (no rule is added, removed, moved or modified),
\* and every cell of the biome grid refers to an entry of that table.
C19_TableReadOnly ==
    /\ [][biomes' = biomes]_vars
    /\ [](biomes = ProgramBiomes)
    /\ [](\A z \in DOMAIN biomeMap : \A x \in DOMAIN biomeMap[z] :
            biomeMap[z][x] \in DOMAIN biomes)

\* C19 witness: checkBiomes has run and reported overlaps, and the call of
\* generateTerrainMesh that followed has returned a mesh whose biome grid
\* refers to two different entries of the table.
C19_Witness ==
    /\ pc = "returned"
    /\ ci >= BiomeLength
    /\ warnings # <<>>
    /\ terrainCall.segments >= 2
    /\ \E z \in DOMAIN biomeMap : \E x \in DOMAIN biomeMap[z] :
          biomeMap[z][x] # biomeMap[0][0]

(***************************************************************************)
(* Properties of the window drag.                                          *)
(***************************************************************************)
\* C20: under SpecDrag, every position the drag handler has written has
\* left in [0, desktopWidth - windowWidth] and top in
\* [40, desktopHeight - windowHeight], for every pointer position and every
\* desktop and window size.
C20_WithinDesktop ==
    dragWritten =>
        /\ 0 <= stylePosition[1]
        /\ stylePosition[1] <= desktopSize[1] - windowSize[1]
        /\ TopbarHeight <= stylePosition[2]
        /\ stylePosition[2] <= desktopSize[2] - windowSize[2]

(***************************************************************************)
(* Properties of the climate grids of the terrain builder.                 *)
(***************************************************************************)
\* C21: under SpecTerrain, in a call with segments >= 1, for every grid
\* coordinate c in 0..segments the cell index floor(c * 255 / segments) is in
\* 0..255, coordinate 0 maps to 0, coordinate segments to 255, the mapping
\* is non-decreasing, and the cell the classification loop is about to read
\* exists in the temperature grid and in the humidity grid.
C21_ClimateIndexInBounds ==
    (terrainCall # None /\ terrainCall.segments >= 1) =>
        LET sg == terrainCall.segments
        IN  /\ \A c \in 0..sg : ClimateIndex(c, sg) \in 0..(MapSize - 1)
            /\ ClimateIndex(0, sg) = 0
            /\ ClimateIndex(sg, sg) = MapSize - 1
            /\ \A c \in 0..(sg - 1) : ClimateIndex(c, sg) <= ClimateIndex(c + 1, sg)
            /\ (pc = "classify" /\ rowZ <= sg) =>
                  LET tempZ == ClimateIndex(rowZ, sg)
                      tempX == ClimateIndex(colX, sg)
                  IN  /\ colX \in 0..sg
                      /\ tempZ \in DOMAIN temperatureMap
                      /\ tempX \in DOMAIN temperatureMap[tempZ]
                      /\ tempZ \in DOMAIN humidityMap
                      /\ tempX \in DOMAIN humidityMap[tempZ]

\* C21 witness: the classification loop is about to read, for the last row
\* of a mesh whose segments do not divide 255, a cell whose index was
\* rounded down.
C21_Witness ==
    /\ pc = "classify"
    /\ terrainCall.segments >= 2
    /\ rowZ = terrainCall.segments
    /\ ClimateIndex(rowZ, terrainCall.segments) = MapSize - 1
    /\ (colX * 255) % terrainCall.segments # 0

\* A value that the clamp of line 534 or 535 left as it was.
Unclamped(v) == 0 < v /\ v < ONE

\* C22: under SpecTerrain, within one call the temperature grid and the
\* humidity grid are equal cell for cell before the modifiers are applied;
\* afterwards, when tempModifier = humidModifier the grids are still equal
\* and every vertex is classified with temperature = humidity, and in
\* general two cells that were not clamped differ by
\* tempModifier - humidModifier.
C22_GridsDifferByModifiers ==
    (terrainCall # None /\ temperatureMap # None) =>
        /\ DOMAIN temperatureMap = DOMAIN humidityMap
        /\ pc = "modifiers" => temperatureMap = humidityMap
        /\ pc # "modifiers" =>
              /\ terrainCall.tempModifier = terrainCall.humidModifier =>
                    /\ temperatureMap = humidityMap
                    /\ temp = humid
              /\ \A z \in DOMAIN temperatureMap : \A x \in DOMAIN temperatureMap[z] :
                    (Unclamped(temperatureMap[z][x]) /\ Unclamped(humidityMap[z][x]))
                        => temperatureMap[z][x] - humidityMap[z][x] =
                             terrainCall.tempModifier - terrainCall.humidModifier

\* C22 witness: a call with tempModifier = humidModifier has classified a
\* vertex with a temperature, equal to the humidity, that no clamp produced.
C22_Witness ==
    /\ pc = "returned"
    /\ terrainCall.segments >= 1
    /\ terrainCall.tempModifier = terrainCall.humidModifier
    /\ temp = humid
    /\ Unclamped(temp)
    /\ \E z \in DOMAIN temperatureMap : \E x \in DOMAIN temperatureMap[z] :
          temperatureMap[z][x] # temp

(***************************************************************************)
(* Properties of the input state of the game window.                       *)
(***************************************************************************)
\* C23: under SpecInput, across every interleaving of mousemove events, the
\* interval callback and animation frames, the movement delta of a mousemove
\* under pointer lock is never overwritten or reset before a frame has
\* applied it, and is never applied to the camera by two frames.
C23_DeltaConsumedOnce == ~deltaDropped /\ deltaReads <= 1

\* C24: under SpecInput, after any sequence of keydown, keyup, mousedown,
\* mouseup and mouseleave events, from a blur of the window until the next
\* keydown or mousedown the keys set is empty and mousebuttons is 0; and a
\* key is in the set exactly when its latest event since the latest blur
\* was a keydown.
C24_NoStuckInput ==
    /\ quiet => (keys = {} /\ mousebuttons = 0)
    /\ \A k \in Keys : k \in keys <=> lastKeyEvent[k] = "down"

\* C24 witness: the window was blurred while a key and a button were held,
\* and a mouseup of that button has arrived since.
C24_Witness ==
    /\ quiet
    /\ ~focused
    /\ released
    /\ keys = {}
    /\ mousebuttons = 0

(***************************************************************************)
(* Properties of dragging and resizing together.                           *)
(***************************************************************************)
\* C25: under SpecDrag, for every sequence of mousedown, mousemove and
\* mouseup events, no mousemove has the drag listener and the resize
\* listener both write the geometry of the window, and after a mouseup the
\* dragging flag and the resizing flag are false and the listeners of both
\* are removed from the document.
C25_DragResizeExclusive ==
    /\ Cardinality(movedBy) <= 1
    /\ lastEvent = "mouseup" =>
          /\ ~isDragging
          /\ ~isResizing
          /\ ~dragListening
          /\ ~resizeListening

\* C25 witness: a mousedown on the toolbar within 10px of an edge of the
\* window has set both flags, and the mousemove that followed moved the
\* window by the drag listener alone.
C25_Witness ==
    /\ isDragging
    /\ isResizing
    /\ dragListening
    /\ resizeListening
    /\ lastEvent = "mousemove"
    /\ movedBy = {"drag"}
    /\ stylePosition # <<0, TopbarHeight>>

(***************************************************************************)
(* Properties of the table lookups of the noise sample function.           *)
(***************************************************************************)
\* The table has 512 entries, each in 0..255.
EntriesInRange(tab) ==
    /\ DOMAIN tab = 0..(2 * PermSize - 1)
    /\ \A k \in DOMAIN tab : tab[k] \in 0..(PermSize - 1)

\* C26: under SpecLookup, for any sample coordinates, when the entries of
\* the table are in 0..255, the indices X, X+1, a = p[X]+Y, a+1,
\* b = p[X+1]+Y and b+1 that the noise sample function reads all lie in
\* 0..511, so that every read finds an entry.
C26_LookupsInBounds ==
    (pc = "looked" /\ EntriesInRange(TableOf(lookup.seed))) =>
        /\ lookup.indices \subseteq 0..(2 * PermSize - 1)
        /\ \A k \in lookup.indices :
              Get(TableOf(lookup.seed), k) \in 0..(PermSize - 1)

\* C26 witness: a call of noise on a table with entries in 0..255 has read
\* the last entry of the table, 511.
C26_Witness ==
    /\ pc = "looked"
    /\ EntriesInRange(TableOf(lookup.seed))
    /\ 2 * PermSize - 1 \in lookup.indices

====
